---- MODULE Spec2Model ----
(***************************************************************************)
(* Minimizer-based distributed k-mer counting map.                         *)
(*                                                                         *)
(*   src/minimizer.cpp        Minimizer<valType>: rolling 2-bit m-mer      *)
(*   src/unnamed/part_000     dsc::minimizer_based_counting_unordered_map  *)
(*                            (insert: all-reduce of the load histogram,   *)
(*                            greedy binning, super-mer exchange, local    *)
(*                            expansion and counting)                      *)
(*                                                                         *)
(* The specifications of the module share its variables:                   *)
(*   SpecBin   the greedy binning loop of insert, one iteration per step   *)
(*   SpecExt   the super-mer extractor feeding insert                      *)
(*   SpecMin   a Minimizer object on words of 16, 32 and 64 bits           *)
(*   Spec      one insert call on comm_size ranks                          *)
(*   SpecLive  the same with fairness, over a smaller set of reads         *)
(*   SpecTwice insert run twice on the same inputs                         *)
(*   SpecSeq   two insert calls on the same map, each with its own batch   *)
(*   SpecLoc   the local part of insert on one rank, one loop iteration    *)
(*             per step                                                    *)
(*   SpecWire  one bucket through the wire format                          *)
(*   SpecRes   calls of local_reserve                                      *)
(*   SpecCnt   calls of local_insert on a count type of 8 bits             *)
(*   SpecOwn   the owner lookups of insert for any histogram length        *)
(*   SpecOvl   find_overlap of the multimap on two and three ranks         *)
(*   SpecOvlLive   the same with fairness, over a smaller set of inputs    *)
(*   SpecMM    the local operations of an unordered_multimap               *)
(*   SpecFnd   the local part of find on a counting map                    *)
(***************************************************************************)
EXTENDS Integers, Sequences, FiniteSets, TLC

VARIABLES comm_size, kmer_size, bin, ext, rk, loc, net, rsv, mz, cnt, own, ovl, mmap, fnd

vars == <<comm_size, kmer_size, bin, ext, rk, loc, net, rsv, mz, cnt, own, ovl, mmap, fnd>>

(***************************************************************************)
(* Bounds of the model.                                                    *)
(***************************************************************************)
\* largest communicator size explored
MaxP == 2
\* longest load histogram handed to the binning loop in SpecBin
MaxHistLen == 5
\* histogram cell values explored in SpecBin
HistVals == {0, 100, 200, 300}

Idx(n) == 0 .. (n - 1)

Ranks == Idx(comm_size)

Unused == "unused"

RECURSIVE SumOver(_, _)
\* sum of f over the finite set S of its arguments
SumOver(f, S) ==
  IF S = {} THEN 0
  ELSE LET x == CHOOSE y \in S : TRUE IN f[x] + SumOver(f, S \ {x})

MaxOf(S) == CHOOSE x \in S : \A y \in S : y <= x

MinOf(S) == CHOOSE x \in S : \A y \in S : x <= y

(***************************************************************************)
(* Greedy binning of minimizers to ranks (insert, lines 2241-2275).        *)
(***************************************************************************)

\* the comparator handed to std::sort: i1 goes before i2
SortCompAscending(H, i1, i2) == H[i1] < H[i2]

SortComp(H, i1, i2) == H[i1] > H[i2]

RECURSIVE SortOutcomes(_, _)
\* std::sort over iota(0..n-1) with SortComp: every arrangement of the
\* indices in which no later index compares before an earlier one.  The
\* sort is not stable, so the order among equal loads is not determined.
SortOutcomes(S, H) ==
  IF S = {} THEN {<<>>}
  ELSE UNION { { <<x>> \o p : p \in SortOutcomes(S \ {x}, H) } :
               x \in {y \in S : \A z \in S : ~ SortComp(H, z, y)} }

\* a sorted sequence as the zero-based vector of the code
AsVector(s) == [k \in Idx(Len(s)) |-> s[k + 1]]

RECURSIVE ScanHighest(_, _, _, _, _)
ScanHighest(load, P, j, min_load, min_rank) ==
  IF j >= P THEN min_rank
  ELSE IF load[j] <= min_load
       THEN ScanHighest(load, P, j + 1, load[j], j)
       ELSE ScanHighest(load, P, j + 1, min_load, min_rank)

RECURSIVE ScanMinRank(_, _, _, _, _)
\* the inner loop: for (j = 1; j < comm.size(); j++) if (rank_load[j] < min_load) ...
ScanMinRank(load, P, j, min_load, min_rank) ==
  IF j >= P THEN min_rank
  ELSE IF load[j] < min_load
       THEN ScanMinRank(load, P, j + 1, load[j], j)
       ELSE ScanMinRank(load, P, j + 1, min_load, min_rank)

MinRankOneBased(load, P) == ScanMinRank(load, P, 1, load[0], 0) + 1

MinRankZero(load, P) == 0

\* min_load = rank_load[0]; min_rank = 0; then the scan
MinRank(load, P) == ScanMinRank(load, P, 1, load[0], 0)

AddLoadPerMinimizer(load, r, H, minimizer) == [load EXCEPT ![r] = @ + 1]

\* rank_load[min_rank] += minimizer_kmer_load_map[minimizer]
AddLoad(load, r, H, minimizer) == [load EXCEPT ![r] = @ + H[minimizer]]

\* one iteration of the binning loop on the pair (rank_load, minimizer_rank)
BinIteration(st, H, P, minimizer) ==
  LET min_rank == MinRank(st.rank_load, P)
  IN [rank_load      |-> AddLoad(st.rank_load, min_rank, H, minimizer),
      minimizer_rank |-> [st.minimizer_rank EXCEPT ![minimizer] = min_rank]]

\* std::vector<size_t> rank_load(comm.size(), 0), minimizer_rank(map.size())
BinStart(H, P) ==
  [rank_load      |-> [r \in Idx(P) |-> 0],
   minimizer_rank |-> [m \in DOMAIN H |-> 0]]

RECURSIVE BinFrom(_, _, _, _, _)
\* iterations i, i+1, ... of the loop; nx is the pair of vectors after
\* iteration i, bound as a value before the next iteration reads it
BinFrom(st, H, P, sorted, i) ==
  IF i >= Len(sorted) THEN st
  ELSE CHOOSE res \in { BinFrom(nx, H, P, sorted, i + 1) :
                          nx \in {BinIteration(st, H, P, sorted[i + 1])} } : TRUE

\* the whole loop over sorted_minimizer_kmer_load_map_indices
GreedyBinning(H, P, sorted) == BinFrom(BinStart(H, P), H, P, sorted, 0)

(***************************************************************************)
(* SpecBin: the binning loop, one iteration per step.                      *)
(*   bin.minimizer_kmer_load_map   the (post-reduce) histogram             *)
(*   bin.sorted                    sorted_minimizer_kmer_load_map_indices  *)
(*   bin.i                         the loop counter                        *)
(*   bin.rank_load, bin.minimizer_rank                                     *)
(*   bin.writes[m]                 number of stores into minimizer_rank[m] *)
(*   bin.order                     minimizers in the order processed       *)
(***************************************************************************)
BinInit ==
  /\ comm_size \in 1 .. MaxP
  /\ mz = Unused
  /\ cnt = Unused /\ own = Unused /\ ovl = Unused /\ mmap = Unused /\ fnd = Unused
  /\ kmer_size = 0
  /\ ext = Unused
  /\ rk = Unused
  /\ loc = Unused
  /\ net = Unused
  /\ rsv = Unused
  /\ \E n \in 1 .. MaxHistLen :
       \E H \in [Idx(n) -> HistVals] :
         bin = [pc |-> "sort",
                minimizer_kmer_load_map |-> H,
                sorted |-> <<>>,
                i |-> 0,
                rank_load |-> <<>>,
                minimizer_rank |-> <<>>,
                writes |-> [m \in Idx(n) |-> 0],
                order |-> <<>>]

\* lines 2244-2246 and 2261-2262: sort the indices, allocate the vectors
BinSort ==
  /\ bin.pc = "sort"
  /\ LET H == bin.minimizer_kmer_load_map
         st == BinStart(H, comm_size)
     IN \E s \in SortOutcomes(DOMAIN H, H) :
          bin' = [bin EXCEPT !.pc = "loop",
                             !.sorted = AsVector(s),
                             !.i = 0,
                             !.rank_load = st.rank_load,
                             !.minimizer_rank = st.minimizer_rank]
  /\ UNCHANGED <<comm_size, kmer_size, ext, rk, loc, net, rsv, mz,
                 cnt, own, ovl, mmap, fnd>>

\* lines 2263-2275: one iteration of the loop
BinAssign ==
  /\ bin.pc = "loop"
  /\ bin.i < Cardinality(DOMAIN bin.sorted)
  /\ LET H == bin.minimizer_kmer_load_map
         minimizer == bin.sorted[bin.i]
         st == BinIteration([rank_load |-> bin.rank_load,
                             minimizer_rank |-> bin.minimizer_rank],
                            H, comm_size, minimizer)
     IN bin' = [bin EXCEPT !.i = @ + 1,
                           !.rank_load = st.rank_load,
                           !.minimizer_rank = st.minimizer_rank,
                           !.writes = [@ EXCEPT ![minimizer] = @ + 1],
                           !.order = Append(@, minimizer)]
  /\ UNCHANGED <<comm_size, kmer_size, ext, rk, loc, net, rsv, mz,
                 cnt, own, ovl, mmap, fnd>>

\* the loop condition i < sorted.size() fails
BinEnd ==
  /\ bin.pc = "loop"
  /\ bin.i >= Cardinality(DOMAIN bin.sorted)
  /\ bin' = [bin EXCEPT !.pc = "done"]
  /\ UNCHANGED <<comm_size, kmer_size, ext, rk, loc, net, rsv, mz,
                 cnt, own, ovl, mmap, fnd>>

BinNext == BinSort \/ BinAssign \/ BinEnd

SpecBin == BinInit /\ [][BinNext]_vars

(***************************************************************************)
(* Bit operations on unsigned words.                                       *)
(***************************************************************************)
RECURSIVE Pow2(_)
Pow2(n) == IF n = 0 THEN 1 ELSE 2 * Pow2(n - 1)

RECURSIVE BitAnd(_, _)
BitAnd(a, b) ==
  IF a = 0 \/ b = 0 THEN 0
  ELSE (a % 2) * (b % 2) + 2 * BitAnd(a \div 2, b \div 2)

RECURSIVE BitOr(_, _)
BitOr(a, b) ==
  IF a = 0 THEN b
  ELSE IF b = 0 THEN a
  ELSE (IF a % 2 = 1 \/ b % 2 = 1 THEN 1 ELSE 0) + 2 * BitOr(a \div 2, b \div 2)

\* width in bits of valType, the word holding an m-mer
WordBits == 16

\* x <<= 2 on a valType
Shl2(x) == (x * 4) % Pow2(WordBits)

(***************************************************************************)
(* class Minimizer (src/minimizer.cpp): the object is the record           *)
(* [val, mmer_size, mask].                                                 *)
(***************************************************************************)
\* mmer_size = size; mask = (1 << (2 * mmer_size)) - 1
setMmerSize(mm, size) ==
  [mm EXCEPT !.mmer_size = size, !.mask = Pow2(2 * size) - 1]

getValue(mm) == mm.val

RECURSIVE InitLoop(_, _, _, _)
\* for (i = 0; i < mmer_size; ++i) { val <<= 2; val |= *begin; ++begin; }
InitLoop(val, bases, begin, n) ==
  IF n = 0 THEN val
  ELSE InitLoop(BitOr(Shl2(val), bases[begin]), bases, begin + 1, n - 1)

\* init(begin): val = 0, then the loop; begin is a position in bases
MinimizerInit(mm, bases, begin) ==
  [mm EXCEPT !.val = InitLoop(0, bases, begin, mm.mmer_size)]

MinimizerNextNoMask(mm, base) ==
  [mm EXCEPT !.val = BitOr(Shl2(mm.val), base)]

\* next(begin): val <<= 2; val &= mask; val |= *begin
MinimizerNext(mm, base) ==
  [mm EXCEPT !.val = BitOr(BitAnd(Shl2(mm.val), mm.mask), base)]

\* a comparison of the values under the left operand's mask
MinimizerLessMasked(a, b) == BitAnd(a.val, a.mask) < BitAnd(b.val, a.mask)

\* operator< and operator> compare val only
MinimizerLess(a, b) == a.val < b.val

MinimizerGreater(a, b) == a.val > b.val

\* operator== and operator!=
MinimizerEq(a, b) == a.val = b.val

MinimizerNeq(a, b) == a.val # b.val

(***************************************************************************)
(* Minimizer<valType> on words of 32 and 64 bits.  A word is the vector of *)
(* its 2-bit fields, the most significant first; the object is the record  *)
(* [val, mmer_size, mask] as above.                                        *)
(***************************************************************************)
\* width in bits of int, the type of the literal 1 in 1 << (2 * mmer_size)
IntBits == 32

\* the word of w bits whose d lowest fields are all ones
LowFields(w, d) == [i \in 1 .. (w \div 2) |-> IF i > (w \div 2) - d THEN 3 ELSE 0]

\* (1 << n) - 1 computed in int and converted to a word of w bits, n even.
\* Below the width of int the result is the n lowest bits.  From the width
\* of int on the shift is undefined; the builds either take the count modulo
\* the width (the result is the n % IntBits lowest bits) or shift the 1 out
\* (0 - 1 is -1, all bits of the word once converted).
MaskOutcomes(n, w) ==
  IF n < IntBits - 1
  THEN {LowFields(w, (IF n < w THEN n ELSE w) \div 2)}
  ELSE {LowFields(w, (n % IntBits) \div 2), LowFields(w, w \div 2)}

\* the objects setMmerSize may leave: mmer_size = size; mask = (1 << (2 * mmer_size)) - 1
setMmerSizeWide(mm, size) ==
  { [mm EXCEPT !.mmer_size = size, !.mask = mask] :
      mask \in MaskOutcomes(2 * size, 2 * Len(mm.val)) }

\* val <<= 2
Shl2Wide(v) == [i \in 1 .. Len(v) |-> IF i < Len(v) THEN v[i + 1] ELSE 0]

\* val &= mask
BitAndWide(a, b) == [i \in 1 .. Len(a) |-> BitAnd(a[i], b[i])]

\* val |= *begin, a base code
BitOrBase(v, base) == [v EXCEPT ![Len(v)] = BitOr(@, base)]

\* the k-th base (from 1) of the stream that repeats pattern
BaseAt(pattern, k) == pattern[((k - 1) % Len(pattern)) + 1]

RECURSIVE InitLoopWide(_, _, _, _)
InitLoopWide(val, pattern, begin, n) ==
  IF n = 0 THEN val
  ELSE CHOOSE res \in { InitLoopWide(nx, pattern, begin + 1, n - 1) :
                          nx \in {BitOrBase(Shl2Wide(val), BaseAt(pattern, begin))} } : TRUE

\* init(begin): val = 0, then mmer_size times val <<= 2; val |= *begin; ++begin
MinimizerInitWide(mm, pattern, begin) ==
  [mm EXCEPT !.val = InitLoopWide(LowFields(2 * Len(mm.val), 0), pattern, begin,
                                  mm.mmer_size)]

\* next(begin): val <<= 2; val &= mask; val |= *begin
MinimizerNextWide(mm, base) ==
  [mm EXCEPT !.val = BitOrBase(BitAndWide(Shl2Wide(mm.val), mm.mask), base)]

(***************************************************************************)
(* SpecMin: one Minimizer object from setMmerSize through init and a few   *)
(* calls of next.  mz is                                                   *)
(*   pc        new, sized, rolling                                         *)
(*   bits      the width of valType                                        *)
(*   size      the argument of setMmerSize                                 *)
(*   pattern   the bases fed to init and next repeat this sequence         *)
(*   mm        the object                                                  *)
(*   consumed  the number of bases init and next have read                 *)
(***************************************************************************)
\* most calls of next after init
MaxNexts == 3

\* widths of valType explored
WordWidths == {16, 32, 64}

\* minimizer lengths explored, each on the widths that hold it
MmerSizes == {1, 2, 3, 8, 9, 15, 16, 17, 32}

BasePatterns == {<<0>>, <<3>>, <<1, 2>>, <<0, 1, 2, 3>>, <<3, 0, 0, 2, 1>>}

MinInitial ==
  /\ comm_size = 1
  /\ kmer_size = 0
  /\ bin = Unused
  /\ ext = Unused
  /\ rk = Unused
  /\ loc = Unused
  /\ net = Unused
  /\ rsv = Unused
  /\ cnt = Unused /\ own = Unused /\ ovl = Unused /\ mmap = Unused /\ fnd = Unused
  /\ \E w \in WordWidths, size \in MmerSizes, pattern \in BasePatterns :
       /\ 2 * size <= w
       /\ mz = [pc |-> "new", bits |-> w, size |-> size, pattern |-> pattern,
                mm |-> [val |-> LowFields(w, 0), mmer_size |-> 0,
                        mask |-> LowFields(w, 0)],
                consumed |-> 0]

MinSetMmerSize ==
  /\ mz.pc = "new"
  /\ \E mm \in setMmerSizeWide(mz.mm, mz.size) :
       mz' = [mz EXCEPT !.pc = "sized", !.mm = mm]
  /\ UNCHANGED <<comm_size, kmer_size, bin, ext, rk, loc, net, rsv,
                 cnt, own, ovl, mmap, fnd>>

MinInit ==
  /\ mz.pc = "sized"
  /\ mz' = [mz EXCEPT !.pc = "rolling",
                      !.mm = MinimizerInitWide(mz.mm, mz.pattern, 1),
                      !.consumed = mz.mm.mmer_size]
  /\ UNCHANGED <<comm_size, kmer_size, bin, ext, rk, loc, net, rsv,
                 cnt, own, ovl, mmap, fnd>>

MinNext ==
  /\ mz.pc = "rolling"
  /\ mz.consumed < mz.size + MaxNexts
  /\ mz' = [mz EXCEPT !.mm = MinimizerNextWide(mz.mm, BaseAt(mz.pattern, mz.consumed + 1)),
                      !.consumed = @ + 1]
  /\ UNCHANGED <<comm_size, kmer_size, bin, ext, rk, loc, net, rsv,
                 cnt, own, ovl, mmap, fnd>>

MinStep == MinSetMmerSize \/ MinInit \/ MinNext

SpecMin == MinInitial /\ [][MinStep]_vars

(***************************************************************************)
(* Expansion of a super-mer into k-mers (insert, lines 2374-2378).         *)
(***************************************************************************)
RECURSIVE PackBases(_)
\* the packed value of a base sequence, first base most significant
PackBases(bases) ==
  IF bases = <<>> THEN 0
  ELSE 4 * PackBases(SubSeq(bases, 1, Len(bases) - 1)) + bases[Len(bases)]

ExpandSupermerShort(supermer, K) ==
  IF Len(supermer) >= K
  THEN [b \in 1 .. (Len(supermer) - K) |-> PackBases(SubSeq(supermer, b, b + K - 1))]
  ELSE <<>>

\* if (supermer.size() >= kmer_size)
\*   for (it_b = begin, it_e = it_b + kmer_size; it_b != end - kmer_size + 1; ++it_b, ++it_e)
\*     kmers.emplace_back(it_b, it_e);
ExpandSupermer(supermer, K) ==
  IF Len(supermer) >= K
  THEN [b \in 1 .. (Len(supermer) - K + 1) |-> PackBases(SubSeq(supermer, b, b + K - 1))]
  ELSE <<>>

RECURSIVE ExpandAll(_, _)
\* for (auto const & supermer : output): the vector kmers
ExpandAll(supermers, K) ==
  IF supermers = <<>> THEN <<>>
  ELSE ExpandSupermer(supermers[1], K) \o ExpandAll(Tail(supermers), K)

(***************************************************************************)
(* Super-mer extractor: the rolling window of m-mers over one read.  The   *)
(* deque holds [value, pos] with pos the zero-based start of the m-mer.    *)
(***************************************************************************)
RECURSIVE PopBack(_, _)
\* pop from the back while the back's value >= the incoming value
PopBack(dq, value) ==
  IF dq # <<>> /\ dq[Len(dq)].value >= value
  THEN PopBack(SubSeq(dq, 1, Len(dq) - 1), value)
  ELSE dq

RECURSIVE PopFront(_, _)
\* pop the front while it lies before the window's first m-mer
PopFront(dq, lo) ==
  IF dq # <<>> /\ dq[1].pos < lo THEN PopFront(Tail(dq), lo) ELSE dq

\* one m-mer enters the window whose first m-mer starts at lo
DequeAdvance(dq, value, pos, lo) ==
  PopFront(Append(PopBack(dq, value), [value |-> value, pos |-> pos]), lo)

RECURSIVE FirstWindow(_, _, _, _)
\* the m-mers 1 .. K-M of the first k-mer enter the deque
FirstWindow(st, read, p, last) ==
  IF p > last THEN st
  ELSE LET mm == MinimizerNext(st.mmer, read[p + st.mmer.mmer_size])
       IN FirstWindow([st EXCEPT !.mmer = mm,
                                 !.deque = DequeAdvance(st.deque, getValue(mm), p, 0)],
                      read, p + 1, last)

NewMinimizer == [val |-> 0, mmer_size |-> 0, mask |-> 0]

\* the state before a read is looked at
ExtIdle(read, M) ==
  [pc |-> "begin", read |-> read, mmer |-> setMmerSize(NewMinimizer, M),
   deque |-> <<>>, j |-> 0, start |-> 0, cur |-> [value |-> 0, pos |-> 0],
   out |-> <<>>]

\* a read shorter than K emits nothing; otherwise the first k-mer's window
ExtBeginSt(st, K) ==
  IF Len(st.read) < K THEN [st EXCEPT !.pc = "done"]
  ELSE LET M   == st.mmer.mmer_size
           mm0 == MinimizerInit(st.mmer, st.read, 1)
           s0  == [st EXCEPT !.mmer = mm0,
                             !.deque = DequeAdvance(<<>>, getValue(mm0), 0, 0)]
           s1  == FirstWindow(s0, st.read, 1, K - M)
       IN [s1 EXCEPT !.pc = "roll", !.j = 0, !.start = 0, !.cur = s1.deque[1]]

\* the k-mer window advances by one base; a change of the front of the
\* deque closes the running super-mer
ExtAdvanceSt(st, K) ==
  LET M   == st.mmer.mmer_size
      j1  == st.j + 1
      mm  == MinimizerNext(st.mmer, st.read[j1 + K])
      dq  == DequeAdvance(st.deque, getValue(mm), j1 + K - M, j1)
      new == dq[1]
  IN IF new = st.cur
     THEN [st EXCEPT !.mmer = mm, !.deque = dq, !.j = j1]
     ELSE [st EXCEPT !.mmer = mm, !.deque = dq, !.j = j1, !.start = j1,
                     !.cur = new,
                     !.out = Append(@, [minimizer |-> st.cur.value,
                                        bases |-> SubSeq(st.read, st.start + 1, st.j + K)])]

\* the end of the read closes the last super-mer
ExtFinishSt(st, K) ==
  [st EXCEPT !.pc = "done",
             !.out = Append(@, [minimizer |-> st.cur.value,
                                bases |-> SubSeq(st.read, st.start + 1, Len(st.read))])]

RECURSIVE ExtRun(_, _)
ExtRun(st, K) ==
  IF st.pc = "done" THEN st
  ELSE IF st.pc = "begin" THEN ExtRun(ExtBeginSt(st, K), K)
  ELSE IF st.j + K < Len(st.read) THEN ExtRun(ExtAdvanceSt(st, K), K)
  ELSE ExtRun(ExtFinishSt(st, K), K)

\* the (minimizer, super-mer) tuples of one read
Supermers(read, K, M) == ExtRun(ExtIdle(read, M), K).out

(***************************************************************************)
(* SpecExt: the extractor on one read, one window advance per step.        *)
(***************************************************************************)
\* longest read explored in SpecExt
MaxReadLen == 5

BaseCodes == {0, 1, 2, 3}

\* (K, M) pairs explored in SpecExt
ExtConfigs == {<<2, 1>>, <<3, 1>>, <<3, 2>>, <<4, 2>>}

\* the reads of the literal scenarios, at K = 5 and M = 3
ScenarioReads == {<<0, 1, 2, 3, 0, 1, 2, 3>>, <<0, 1, 0, 1, 0, 1, 0, 1>>,
                  <<0, 0, 0, 0, 0>>, <<0, 1, 2>>}

ReadsUpTo(B, n) == UNION {[1 .. len -> B] : len \in 0 .. n}

ExtInit ==
  /\ comm_size = 1
  /\ mz = Unused
  /\ cnt = Unused /\ own = Unused /\ ovl = Unused /\ mmap = Unused /\ fnd = Unused
  /\ bin = Unused
  /\ rk = Unused
  /\ loc = Unused
  /\ net = Unused
  /\ rsv = Unused
  /\ \/ \E cfg \in ExtConfigs, read \in ReadsUpTo(BaseCodes, MaxReadLen) :
          /\ kmer_size = cfg[1]
          /\ ext = ExtIdle(read, cfg[2])
     \/ \E read \in ScenarioReads :
          /\ kmer_size = 5
          /\ ext = ExtIdle(read, 3)

ExtBegin ==
  /\ ext.pc = "begin"
  /\ ext' = ExtBeginSt(ext, kmer_size)
  /\ UNCHANGED <<comm_size, kmer_size, bin, rk, loc, net, rsv, mz,
                 cnt, own, ovl, mmap, fnd>>

ExtAdvance ==
  /\ ext.pc = "roll"
  /\ ext.j + kmer_size < Len(ext.read)
  /\ ext' = ExtAdvanceSt(ext, kmer_size)
  /\ UNCHANGED <<comm_size, kmer_size, bin, rk, loc, net, rsv, mz,
                 cnt, own, ovl, mmap, fnd>>

ExtFinish ==
  /\ ext.pc = "roll"
  /\ ext.j + kmer_size >= Len(ext.read)
  /\ ext' = ExtFinishSt(ext, kmer_size)
  /\ UNCHANGED <<comm_size, kmer_size, bin, rk, loc, net, rsv, mz,
                 cnt, own, ovl, mmap, fnd>>

ExtNext == ExtBegin \/ ExtAdvance \/ ExtFinish

SpecExt == ExtInit /\ [][ExtNext]_vars

(***************************************************************************)
(* The collaborators of insert.                                            *)
(***************************************************************************)
\* number of minimizer values, 4^M: the length of the load histogram
NumMinimizers(M) == Pow2(2 * M)

RECURSIVE LocalHistogram(_, _, _)
\* the caller's histogram: each super-mer of L k-mers adds L to H[minimizer]
LocalHistogram(tuples, K, n) ==
  IF tuples = <<>> THEN [m \in Idx(n) |-> 0]
  ELSE LET t == tuples[Len(tuples)]
           h == LocalHistogram(SubSeq(tuples, 1, Len(tuples) - 1), K, n)
       IN [h EXCEPT ![t.minimizer] = @ + (Len(t.bases) - K + 1)]

\* dsc::empty(input, comm): no rank has any input
GlobalEmpty(st) == \A r \in DOMAIN st : st[r].input = <<>>

\* imxx::all_reduce_minimizer_kmer_load_map: the cell-wise sum over the ranks
AllReduceSum(st) ==
  [m \in DOMAIN st[0].minimizer_kmer_load_map |->
     SumOver([r \in DOMAIN st |-> st[r].minimizer_kmer_load_map[m]], DOMAIN st)]

\* extract_first followed by getPrefix(): the index of a tuple's minimizer
GetPrefix(x) == x.minimizer

\* TupleToRank2::operator(): minimizer_rank[t(x).getPrefix()]
TupleToRank2(minimizer_rank, x) == minimizer_rank[GetPrefix(x)]

\* the values murmur may give to the minimizers: any function of the minimizer
MurmurFunctions == [Idx(NumMinimizers(1)) -> Idx(3)]

\* TupleToRank::operator(): h(t(x)) % p, with h the murmur hash
TupleToRank(h, x, p) == h[x.minimizer] % p

RECURSIVE Bucket(_, _, _)
\* the super-mers of input owned by rank p, in input order
Bucket(input, minimizer_rank, p) ==
  IF input = <<>> THEN <<>>
  ELSE LET rest == Bucket(Tail(input), minimizer_rank, p)
       IN IF TupleToRank2(minimizer_rank, input[1]) = p
          THEN <<input[1].bases>> \o rest
          ELSE rest

\* one byte of packed bases: bases 4q+1 .. 4q+4, first base in the top bits
PackByte(bases, q) ==
  LET code(k) == IF 4 * q + k <= Len(bases) THEN bases[4 * q + k] ELSE 0
  IN 64 * code(1) + 16 * code(2) + 4 * code(3) + code(4)

\* one super-mer on the wire: base count, then ceil(2B/8) bytes
Serialize(bases) ==
  <<Len(bases)>> \o [q \in 1 .. ((Len(bases) + 3) \div 4) |-> PackByte(bases, q - 1)]

RECURSIVE SerializeBucket(_)
SerializeBucket(supermers) ==
  IF supermers = <<>> THEN <<>>
  ELSE Serialize(supermers[1]) \o SerializeBucket(Tail(supermers))

\* the first base taken from the low bits of the byte
UnpackBaseLsbFirst(bytes, k) ==
  LET byte  == bytes[((k - 1) \div 4) + 1]
      shift == (k - 1) % 4
  IN (byte \div Pow2(2 * shift)) % 4

\* the k-th base (from 1) of a packed byte sequence
UnpackBase(bytes, k) ==
  LET byte  == bytes[((k - 1) \div 4) + 1]
      shift == 3 - ((k - 1) % 4)
  IN (byte \div Pow2(2 * shift)) % 4

RECURSIVE Deserialize(_)
\* the super-mers of a received byte stream
Deserialize(wire) ==
  IF wire = <<>> THEN <<>>
  ELSE LET B      == wire[1]
           nbytes == (B + 3) \div 4
           bytes  == SubSeq(wire, 2, 1 + nbytes)
       IN <<[k \in 1 .. B |-> UnpackBase(bytes, k)]>>
            \o (CHOOSE res \in { Deserialize(rest) :
                                  rest \in {SubSeq(wire, 2 + nbytes, Len(wire))} } : TRUE)

RECURSIVE ConcatFrom(_, _, _)
\* what rank r receives: the buckets for r of sources p, p+1, ..., in rank order
ConcatFrom(st, r, p) ==
  IF p \notin DOMAIN st THEN <<>>
  ELSE st[p].send[r] \o ConcatFrom(st, r, p + 1)

RECURSIVE CountKmers(_, _)
\* the number of k-mers the received super-mers expand to
CountKmers(supermers, K) ==
  IF supermers = <<>> THEN 0
  ELSE (IF Len(supermers[1]) >= K THEN Len(supermers[1]) - K + 1 ELSE 0)
         + CountKmers(Tail(supermers), K)

(***************************************************************************)
(* SpecWire: one destination bucket through the wire format.  net is       *)
(*   pc      packed, sent, received                                        *)
(*   bucket  the super-mers of the bucket, in order                        *)
(*   bytes   the payload, out the super-mers the receiver rebuilds         *)
(***************************************************************************)
\* the buckets explored: every super-mer of up to MaxReadLen bases over the
\* four codes, alone, before, after and between two fixed neighbours
WireBuckets ==
  LET f1 == <<2, 3, 0, 1, 2>>
      f2 == <<1>>
  IN UNION { { <<a>>, <<a, f1>>, <<f2, a>>, <<f1, a, f2>> } :
               a \in ReadsUpTo(BaseCodes, MaxReadLen) \ {<<>>} }

WireInit ==
  /\ comm_size = 2
  /\ mz = Unused
  /\ cnt = Unused /\ own = Unused /\ ovl = Unused /\ mmap = Unused /\ fnd = Unused
  /\ kmer_size = 1
  /\ bin = Unused
  /\ ext = Unused
  /\ rk = Unused
  /\ loc = Unused
  /\ rsv = Unused
  /\ \E bucket \in WireBuckets :
       net = [pc |-> "packed", bucket |-> bucket, bytes |-> <<>>, out |-> <<>>]

\* the sender lays the bucket out in the wire format
WireSend ==
  /\ net.pc = "packed"
  /\ net' = [net EXCEPT !.pc = "sent", !.bytes = SerializeBucket(net.bucket)]
  /\ UNCHANGED <<comm_size, kmer_size, bin, ext, rk, loc, rsv, mz,
                 cnt, own, ovl, mmap, fnd>>

\* the receiver rebuilds the super-mers
WireReceive ==
  /\ net.pc = "sent"
  /\ net' = [net EXCEPT !.pc = "received", !.out = Deserialize(net.bytes)]
  /\ UNCHANGED <<comm_size, kmer_size, bin, ext, rk, loc, rsv, mz,
                 cnt, own, ovl, mmap, fnd>>

WireNext == WireSend \/ WireReceive

SpecWire == WireInit /\ [][WireNext]_vars

(***************************************************************************)
(* The local container c: [map: k-mer -> count, buckets: bucket_count()].  *)
(***************************************************************************)
EmptyTable == [map |-> [k \in {} |-> 0], buckets |-> 1]

TableSize(c) == Cardinality(DOMAIN c.map)

\* float has a significand of 24 bits: the integers up to 2^24 are floats
FloatExact == 16777216

RECURSIVE FloatUlp(_)
\* the distance between the floats around n
FloatUlp(n) == IF n < FloatExact THEN 1 ELSE 2 * FloatUlp(n \div 2)

\* static_cast<float>(n): the nearest float, a tie going to the even significand
ToFloat(n) ==
  LET u == FloatUlp(n)
      q == n \div u
      r == n % u
  IN IF 2 * r < u THEN q * u
     ELSE IF 2 * r > u THEN (q + 1) * u
     ELSE IF q % 2 = 0 THEN q * u ELSE (q + 1) * u

\* c.max_load_factor() of std::unordered_map
max_load_factor == 1

\* unordered_map_base::local_reserve:
\*   size_t buckets = std::ceil(static_cast<float>(n) / c.max_load_factor());
\*   if (c.bucket_count() < buckets) c.rehash(buckets);
\* rehash(b) leaves at least b buckets; the model keeps the least count
local_reserve(c, n) ==
  LET buckets == (ToFloat(n) + max_load_factor - 1) \div max_load_factor
  IN IF c.buckets < buckets THEN [c EXCEPT !.buckets = buckets] ELSE c

(***************************************************************************)
(* SpecRes: calls of local_reserve.  rsv is                                *)
(*   pc        call, returned                                              *)
(*   n         the argument: the number of k-mers of the batch             *)
(*   c_before, c   the container before the call and now                   *)
(***************************************************************************)
\* batch sizes explored: small ones, and the ones around the last integer
\* below which every integer is a float
ReserveSizes == (0 .. 4) \cup ((FloatExact - 2) .. (FloatExact + 4))

\* containers explored: empty or holding one k-mer, over several bucket counts
ReserveTables ==
  { [map |-> m, buckets |-> b] :
      m \in {EmptyTable.map, [k \in {0} |-> 2]},
      b \in {1, 2, 3, 5, FloatExact + 3} }

ResInit ==
  /\ comm_size = 2
  /\ mz = Unused
  /\ cnt = Unused /\ own = Unused /\ ovl = Unused /\ mmap = Unused /\ fnd = Unused
  /\ kmer_size = 1
  /\ bin = Unused
  /\ ext = Unused
  /\ rk = Unused
  /\ loc = Unused
  /\ net = Unused
  /\ \E c \in ReserveTables, n \in ReserveSizes :
       rsv = [pc |-> "call", n |-> n, c_before |-> c, c |-> c]

\* this->local_reserve(total_no_kmers), line 2353
ResCall ==
  /\ rsv.pc = "call"
  /\ rsv' = [rsv EXCEPT !.pc = "returned", !.c = local_reserve(rsv.c, rsv.n)]
  /\ UNCHANGED <<comm_size, kmer_size, bin, ext, rk, loc, net, mz,
                 cnt, own, ovl, mmap, fnd>>

ResNext == ResCall

SpecRes == ResInit /\ [][ResNext]_vars

\* the value of the pair replaces the stored count
InsertOneOverwrite(c, x) ==
  [c EXCEPT !.map = [k \in DOMAIN c.map \cup {x} |-> IF k = x THEN 1 ELSE c.map[k]]]

\* one iteration of local_insert with the pair (x, T(1)) and std::plus
InsertOne(c, x) ==
  IF x \notin DOMAIN c.map
  THEN [c EXCEPT !.map = [k \in DOMAIN c.map \cup {x} |->
                            IF k = x THEN 1 ELSE c.map[k]]]
  ELSE [c EXCEPT !.map = [c.map EXCEPT ![x] = @ + 1]]

RECURSIVE InsertLoop(_, _)
\* for (auto it = first; it != last; ++it): nx is the container after the
\* iteration on *it, bound as a value before the next iteration reads it
InsertLoop(c, kmers) ==
  IF kmers = <<>> THEN c
  ELSE CHOOSE res \in { InsertLoop(nx, rest) :
                          nx \in {InsertOne(c, kmers[1])}, rest \in {Tail(kmers)} } : TRUE

\* reduction_unordered_map::local_insert(first, last): the container after it
local_insert(c, kmers) ==
  InsertLoop(local_reserve(c, TableSize(c) + Len(kmers)), kmers)

(***************************************************************************)
(* SpecCnt: calls of local_insert on one map whose count type T is an      *)
(* unsigned integer.  cnt is                                               *)
(*   bits      the width of T                                              *)
(*   c         the container                                               *)
(*   inserted  for every key, how many pairs (key, T(1)) the calls so far  *)
(*             were handed                                                 *)
(***************************************************************************)
\* most pairs handed to the map over all calls
MaxInsertions == 300
\* longest batch of one call
MaxBatch == 2

\* widths of T explored: uint8_t
CountWidths == {8}

\* k-mers handed to the map
CountKeys == {0, 1}

\* an addition that stops at the largest value of T
PlusSaturating(w, a, b) == IF a + b >= Pow2(w) THEN Pow2(w) - 1 ELSE a + b

\* std::plus<T> on an unsigned T of w bits: the sum is converted back to T
PlusT(w, a, b) == (a + b) % Pow2(w)

\* one iteration of local_insert with the pair (x, T(1)) on a T of w bits
InsertOneT(w, c, x) ==
  IF x \notin DOMAIN c.map
  THEN [c EXCEPT !.map = [k \in DOMAIN c.map \cup {x} |->
                            IF k = x THEN 1 ELSE c.map[k]]]
  ELSE [c EXCEPT !.map = [c.map EXCEPT ![x] = PlusT(w, @, 1)]]

RECURSIVE InsertLoopT(_, _, _)
InsertLoopT(w, c, kmers) ==
  IF kmers = <<>> THEN c
  ELSE CHOOSE res \in { InsertLoopT(w, nx, rest) :
                          nx \in {InsertOneT(w, c, kmers[1])},
                          rest \in {Tail(kmers)} } : TRUE

\* local_insert(first, last) on a T of w bits
local_insertT(w, c, kmers) ==
  InsertLoopT(w, local_reserve(c, TableSize(c) + Len(kmers)), kmers)

CountBatches == UNION { [1 .. n -> CountKeys] : n \in 1 .. MaxBatch }

CntInit ==
  /\ comm_size = 1
  /\ kmer_size = 0
  /\ bin = Unused
  /\ ext = Unused
  /\ rk = Unused
  /\ loc = Unused
  /\ net = Unused
  /\ rsv = Unused
  /\ mz = Unused
  /\ own = Unused /\ ovl = Unused /\ mmap = Unused /\ fnd = Unused
  /\ \E w \in CountWidths :
       cnt = [bits |-> w, c |-> EmptyTable, inserted |-> [k \in CountKeys |-> 0]]

\* one call of local_insert
CntInsert ==
  /\ \E kmers \in CountBatches :
       /\ SumOver(cnt.inserted, CountKeys) + Len(kmers) <= MaxInsertions
       /\ cnt' = [cnt EXCEPT
                    !.c = local_insertT(cnt.bits, cnt.c, kmers),
                    !.inserted = [k \in CountKeys |->
                                    @[k] + Cardinality({i \in 1 .. Len(kmers) : kmers[i] = k})]]
  /\ UNCHANGED <<comm_size, kmer_size, bin, ext, rk, loc, net, rsv, mz,
                 own, ovl, mmap, fnd>>

SpecCnt == CntInit /\ [][CntInsert]_vars

\* C34: the count a key holds is the number of pairs handed to the map for
\* it, reduced modulo 2^bits: past 2^bits - 1 it starts again at 0, and the
\* key stays in the table
T_C34 ==
  /\ DOMAIN cnt.c.map = {k \in CountKeys : cnt.inserted[k] > 0}
  /\ \A k \in DOMAIN cnt.c.map : cnt.c.map[k] = cnt.inserted[k] % Pow2(cnt.bits)

\* key 0 was inserted 2^8 + 1 times and holds 1
W_C34 == cnt.bits = 8 /\ cnt.inserted[0] = 257 /\ cnt.c.map[0] = 1

(***************************************************************************)
(* SpecOwn: the owner lookups of one insert call on one rank of a          *)
(* communicator of more than one rank, for a histogram of any length the   *)
(* caller hands over.  own is                                              *)
(*   pc        binning, lookup, done, fault                                *)
(*   P, M      the communicator size and the minimizer length              *)
(*   H         the histogram argument after the all-reduce                 *)
(*   input     the tuples of the rank                                      *)
(*   minimizer_rank   the owner array, as long as H                        *)
(*   index     the index of every lookup made so far                       *)
(*   ranks     what every lookup returned                                  *)
(***************************************************************************)
\* longest histogram handed to insert in SpecOwn
MaxOwnLen == 5
\* most tuples in the input of the rank
MaxOwnInput == 2

\* histogram cell values in SpecOwn
OwnVals == {0, 1}

\* minimizer length in SpecOwn
OwnM == 1

OwnHistograms == UNION { [Idx(n) -> OwnVals] : n \in 0 .. MaxOwnLen }

OwnInputs ==
  UNION { [1 .. n -> [minimizer : Idx(NumMinimizers(OwnM))]] : n \in 1 .. MaxOwnInput }

\* the outcome of a read that faults
Fault == -1

\* what reading a cell past the end of the vector can give: any value, a
\* rank or not (P stands for the values that are no rank), or a fault
OutOfBoundsRead(P) == Idx(P) \cup {P, Fault}

\* v.size() of a zero-based vector
VecSize(v) == Cardinality(DOMAIN v)

\* minimizer_rank[i] of the code: the cell inside the vector, any outcome
\* of the read past it otherwise
IndexOutcomes(minimizer_rank, i, P) ==
  IF i \in DOMAIN minimizer_rank THEN {minimizer_rank[i]} ELSE OutOfBoundsRead(P)

OwnInit ==
  /\ comm_size \in 2 .. MaxP
  /\ kmer_size = 0
  /\ bin = Unused
  /\ ext = Unused
  /\ rk = Unused
  /\ loc = Unused
  /\ net = Unused
  /\ rsv = Unused
  /\ mz = Unused
  /\ cnt = Unused /\ ovl = Unused /\ mmap = Unused /\ fnd = Unused
  /\ \E H \in OwnHistograms, input \in OwnInputs :
       own = [pc |-> "binning", P |-> comm_size, M |-> OwnM, H |-> H,
              input |-> input, minimizer_rank |-> <<>>,
              index |-> <<>>, ranks |-> <<>>]

\* the sort and the binning loop over the histogram as it was handed over
OwnBinning ==
  /\ own.pc = "binning"
  /\ \E sorted \in SortOutcomes(DOMAIN own.H, own.H) :
       own' = [own EXCEPT
                 !.pc = "lookup",
                 !.minimizer_rank = GreedyBinning(own.H, own.P, sorted).minimizer_rank]
  /\ UNCHANGED <<comm_size, kmer_size, bin, ext, rk, loc, net, rsv, mz,
                 cnt, ovl, mmap, fnd>>

\* tuple_to_rank2(x) for the next tuple of the input
OwnLookup ==
  /\ own.pc = "lookup"
  /\ Len(own.index) < Len(own.input)
  /\ LET x == own.input[Len(own.index) + 1]
         i == GetPrefix(x)
     IN \E v \in IndexOutcomes(own.minimizer_rank, i, own.P) :
          own' = [own EXCEPT
                    !.pc = IF v = Fault THEN "fault" ELSE "lookup",
                    !.index = Append(@, i),
                    !.ranks = Append(@, v)]
  /\ UNCHANGED <<comm_size, kmer_size, bin, ext, rk, loc, net, rsv, mz,
                 cnt, ovl, mmap, fnd>>

\* every tuple has its owner
OwnDone ==
  /\ own.pc = "lookup"
  /\ Len(own.index) = Len(own.input)
  /\ own' = [own EXCEPT !.pc = "done"]
  /\ UNCHANGED <<comm_size, kmer_size, bin, ext, rk, loc, net, rsv, mz,
                 cnt, ovl, mmap, fnd>>

OwnNext == OwnBinning \/ OwnLookup \/ OwnDone

SpecOwn == OwnInit /\ [][OwnNext]_vars

\* C35 as stated: every lookup made indexes minimizer_rank inside its bounds
CE_C35 == \A j \in 1 .. Len(own.index) : own.index[j] < VecSize(own.minimizer_rank)

\* with a histogram of at least 4^M cells every lookup is inside the array
\* and returns a rank
LookupInBoundsAtFullLength ==
  VecSize(own.H) >= NumMinimizers(own.M) =>
    /\ own.pc # "fault"
    /\ \A j \in 1 .. Len(own.index) :
         /\ own.index[j] < VecSize(own.minimizer_rank)
         /\ own.ranks[j] \in Idx(own.P)

(***************************************************************************)
(* SpecOvl: one call of unordered_map_base::find_overlap on every rank of  *)
(* a communicator of more than one rank, as unordered_multimap::find       *)
(* calls it, from the point where the keys were distributed.  ovl is       *)
(*   P         the communicator size                                       *)
(*   db        for every rank, the number of entries its multimap holds    *)
(*             for every key                                               *)
(*   st[r]     the state of rank r:                                        *)
(*     pc             count, irecv, iter, wait_prev, wait_last, waitall,   *)
(*                    done                                                 *)
(*     keys           the queries received, by source rank                 *)
(*     send_counts, resp_counts, max_send_count    the counts exchanged    *)
(*     local_results  the two halves of the send buffer                    *)
(*     i              the iteration of the send loop                       *)
(*     send_reqs, recv_reqs   null, active or complete, by iteration       *)
(*     results        what was received, by source rank                    *)
(*     overwritten    a half was written while a send reading it was       *)
(*                    active                                               *)
(*     overflow       more results were written to a half than it holds    *)
(*   inflight  the messages the library buffered                           *)
(*   matches   for every send (rank, iteration), the receives it matched   *)
(*   mismatch  a receive got another count than the one announced          *)
(***************************************************************************)
\* communicator sizes explored
OvlSizes == {2, 3}

\* the keys: as many as there are ranks
OvlKeys(P) == Idx(P)

\* KeyToRank::operator(): proc_trans_hash(x) % p, for a hash that gives
\* key k the value k
OvlKeyToRank(x, P) == x % P

\* the entries per key of the multimaps explored: on two ranks one entry
\* per key, two entries for key 0 alone, or k entries for key k; on more
\* ranks k entries for key k
OvlTables(P) ==
  IF P = 2
  THEN { [k \in OvlKeys(P) |-> 1],
         [k \in OvlKeys(P) |-> IF k = 0 THEN 2 ELSE 0],
         [k \in OvlKeys(P) |-> k] }
  ELSE { [k \in OvlKeys(P) |-> k] }

\* the keys a rank may ask for: none, all, key 0
OvlAsks(P) == { {}, OvlKeys(P), {0} }

\* the keys every rank asks for: on two ranks any of OvlAsks per rank; on
\* more ranks every rank asks for every key, or rank 0 alone does
OvlAskMaps(P) ==
  IF P = 2
  THEN [Idx(P) -> OvlAsks(P)]
  ELSE { [r \in Idx(P) |-> OvlKeys(P)],
         [r \in Idx(P) |-> IF r = 0 THEN OvlKeys(P) ELSE {}] }

RECURSIVE SetToSeq(_)
\* the keys of a set in ascending order
SetToSeq(S) ==
  IF S = {} THEN <<>>
  ELSE LET x == MinOf(S) IN <<x>> \o SetToSeq(S \ {x})

\* imxx::distribute(keys, key_to_rank, recv_counts, ...): the keys rank r
\* receives from rank src
OvlDistribute(asks, P, r, src) ==
  SetToSeq({k \in asks[src] : OvlKeyToRank(k, P) = r})

\* LocalCount::operator() (unfiltered): the pair (v, db.count(v))
OvlLocalCount(db, v) == [first |-> v, second |-> db[v]]

\* unordered_multimap::LocalFind::operator() (unfiltered): the entries of
\* db.equal_range(v)
OvlLocalFind(db, v) == [j \in 1 .. db[v] |-> v]

RECURSIVE OvlProcessCount(_, _)
\* QueryProcessor::process with count_element, then the accumulate of the
\* second members
OvlProcessCount(db, query) ==
  IF query = <<>> THEN 0
  ELSE OvlLocalCount(db, query[1]).second + OvlProcessCount(db, Tail(query))

RECURSIVE OvlProcessFind(_, _)
\* QueryProcessor::process with find_element: the entries written to output
OvlProcessFind(db, query) ==
  IF query = <<>> THEN <<>>
  ELSE OvlLocalFind(db, query[1]) \o OvlProcessFind(db, Tail(query))

SendToBackward(rank, i, P) == (rank + (P - i)) % P

\* send_to = (comm.rank() + i) % comm.size()
SendTo(rank, i, P) == (rank + i) % P

\* recv_from = (comm.rank() + (comm.size() - i)) % comm.size()
RecvFrom(rank, i, P) == (rank + (P - i)) % P

HalfOfSame(i) == 0

\* local_offset = (i % 2) * max_send_count: the half iteration i uses
HalfOf(i) == i % 2

OvlRankInit(asks, P, r) ==
  [pc |-> "count",
   keys |-> [src \in Idx(P) |-> OvlDistribute(asks, P, r, src)],
   send_counts |-> [d \in Idx(P) |-> 0],
   resp_counts |-> [d \in Idx(P) |-> 0],
   max_send_count |-> 0,
   local_results |-> [h \in {0, 1} |-> <<>>],
   i |-> 0,
   send_reqs |-> [j \in Idx(P) |-> "null"],
   recv_reqs |-> [j \in Idx(P) |-> "null"],
   results |-> [src \in Idx(P) |-> <<>>],
   overwritten |-> FALSE,
   overflow |-> FALSE]

OvlStart(P, db, asks) ==
  [P |-> P, db |-> db,
   st |-> [r \in Idx(P) |-> OvlRankInit(asks, P, r)],
   inflight |-> {},
   matches |-> [x \in Idx(P) \X Idx(P) |-> 0],
   mismatch |-> FALSE]

OvlFrame ==
  UNCHANGED <<comm_size, kmer_size, bin, ext, rk, loc, net, rsv, mz, cnt, own, mmap, fnd>>

OvlOthersUnused ==
  /\ kmer_size = 0
  /\ bin = Unused
  /\ ext = Unused
  /\ rk = Unused
  /\ loc = Unused
  /\ net = Unused
  /\ rsv = Unused
  /\ mz = Unused
  /\ cnt = Unused /\ own = Unused /\ mmap = Unused /\ fnd = Unused

\* every rank holds the entries of the keys it owns
OvlOwned(P, table) ==
  [r \in Idx(P) |->
     [k \in OvlKeys(P) |-> IF OvlKeyToRank(k, P) = r THEN table[k] ELSE 0]]

OvlInit ==
  /\ comm_size \in OvlSizes
  /\ OvlOthersUnused
  /\ \E table \in OvlTables(comm_size), asks \in OvlAskMaps(comm_size) :
       ovl = OvlStart(comm_size, OvlOwned(comm_size, table), asks)

\* the inputs of SpecOvlLive: on more than two ranks every rank asks for
\* every key
OvlAskMapsLive(P) ==
  IF P = 2 THEN OvlAskMaps(P) ELSE { [r \in Idx(P) |-> OvlKeys(P)] }

OvlInitLive ==
  /\ comm_size \in OvlSizes
  /\ OvlOthersUnused
  /\ \E table \in OvlTables(comm_size), asks \in OvlAskMapsLive(comm_size) :
       ovl = OvlStart(comm_size, OvlOwned(comm_size, table), asks)

\* this->empty() || ::dsc::empty(keys, comm): no rank holds an entry or no
\* rank asks for a key
OvlEmpty ==
  \/ \A r \in Idx(ovl.P) : \A k \in OvlKeys(ovl.P) : ovl.db[r][k] = 0
  \/ \A r, src \in Idx(ovl.P) : ovl.st[r].keys[src] = <<>>

\* the early return, taken by every rank
OvlReturnEmpty ==
  /\ \A r \in Idx(ovl.P) : ovl.st[r].pc = "count"
  /\ OvlEmpty
  /\ ovl' = [ovl EXCEPT !.st = [r \in Idx(ovl.P) |-> [ovl.st[r] EXCEPT !.pc = "done"]]]
  /\ OvlFrame

\* the local count per source rank, then mxx::all2all(send_counts) and the
\* allocation of local_results
OvlCount ==
  /\ \A r \in Idx(ovl.P) : ovl.st[r].pc = "count"
  /\ ~ OvlEmpty
  /\ LET sc == [r \in Idx(ovl.P) |->
                  [d \in Idx(ovl.P) |-> OvlProcessCount(ovl.db[r], ovl.st[r].keys[d])]]
     IN ovl' = [ovl EXCEPT !.st =
                  [r \in Idx(ovl.P) |->
                     [ovl.st[r] EXCEPT
                        !.pc = "irecv",
                        !.send_counts = sc[r],
                        !.resp_counts = [src \in Idx(ovl.P) |-> sc[src][r]],
                        !.max_send_count = MaxOf({sc[r][d] : d \in Idx(ovl.P)})]]]
  /\ OvlFrame

\* the loop of MPI_Irecv: receive i is from recv_from with tag i
OvlPostRecvs(r) ==
  /\ ovl.st[r].pc = "irecv"
  /\ ovl' = [ovl EXCEPT !.st[r] =
               [@ EXCEPT !.pc = "iter",
                         !.recv_reqs = [j \in Idx(ovl.P) |-> "active"]]]
  /\ OvlFrame

\* iteration i of the send loop up to MPI_Isend: the results for send_to are
\* written to half i % 2 and the send of that half is started
OvlIterate(r) ==
  /\ ovl.st[r].pc = "iter"
  /\ LET me == ovl.st[r]
         i == me.i
         send_to == SendTo(r, i, ovl.P)
         found == OvlProcessFind(ovl.db[r], me.keys[send_to])
         h == HalfOf(i)
     IN ovl' = [ovl EXCEPT !.st[r] =
                  [@ EXCEPT
                     !.local_results = [@ EXCEPT ![h] = found],
                     !.overwritten =
                        @ \/ \E j \in Idx(i) : me.send_reqs[j] = "active" /\ HalfOf(j) = h,
                     !.overflow = @ \/ Len(found) > me.max_send_count,
                     !.send_reqs = [@ EXCEPT ![i] = "active"],
                     !.pc = IF i > 0 THEN "wait_prev"
                            ELSE IF i + 1 < ovl.P THEN "iter" ELSE "wait_last",
                     !.i = IF i > 0 THEN i ELSE i + 1]]
  /\ OvlFrame

\* if (i > 0) MPI_Wait(&send_reqs[i - 1]): returns when that send completed
OvlWaitPrev(r) ==
  /\ ovl.st[r].pc = "wait_prev"
  /\ ovl.st[r].send_reqs[ovl.st[r].i - 1] = "complete"
  /\ ovl' = [ovl EXCEPT !.st[r] =
               [@ EXCEPT !.pc = IF ovl.st[r].i + 1 < ovl.P THEN "iter" ELSE "wait_last",
                         !.i = @ + 1]]
  /\ OvlFrame

\* MPI_Wait(&send_reqs[comm.size() - 1])
OvlWaitLast(r) ==
  /\ ovl.st[r].pc = "wait_last"
  /\ ovl.st[r].send_reqs[ovl.P - 1] = "complete"
  /\ ovl' = [ovl EXCEPT !.st[r] = [@ EXCEPT !.pc = "waitall"]]
  /\ OvlFrame

\* MPI_Waitall over recv_reqs, then return results
OvlWaitAll(r) ==
  /\ ovl.st[r].pc = "waitall"
  /\ \A j \in Idx(ovl.P) : ovl.st[r].recv_reqs[j] = "complete"
  /\ ovl' = [ovl EXCEPT !.st[r] = [@ EXCEPT !.pc = "done"]]
  /\ OvlFrame

\* receive j of rank d accepts a message from rank r with tag i
OvlMatching(d, j, r, i) ==
  /\ ovl.st[d].recv_reqs[j] = "active"
  /\ RecvFrom(d, j, ovl.P) = r
  /\ j = i

\* receive j of rank d completes with data sent by rank r as send i
OvlReceived(o, d, j, r, i, data) ==
  [o EXCEPT
     !.st[d] = [@ EXCEPT !.recv_reqs = [@ EXCEPT ![j] = "complete"],
                         !.results = [@ EXCEPT ![r] = data]],
     !.matches = [@ EXCEPT ![<<r, i>>] = @ + 1],
     !.mismatch = @ \/ Len(data) # o.st[d].resp_counts[RecvFrom(d, j, o.P)]]

\* the library moves send i of rank r straight from the send buffer into
\* the matching receive; both requests complete
OvlTransfer(r, i) ==
  /\ ovl.st[r].send_reqs[i] = "active"
  /\ LET d == SendTo(r, i, ovl.P)
     IN \E j \in Idx(ovl.P) :
          /\ OvlMatching(d, j, r, i)
          /\ ovl' = [OvlReceived(ovl, d, j, r, i, ovl.st[r].local_results[HalfOf(i)])
                       EXCEPT !.st[r] = [@ EXCEPT !.send_reqs = [@ EXCEPT ![i] = "complete"]]]
  /\ OvlFrame

\* the library copies send i of rank r into its own buffer; the send
\* completes before the receive
OvlBuffer(r, i) ==
  /\ ovl.st[r].send_reqs[i] = "active"
  /\ ovl' = [ovl EXCEPT
               !.st[r] = [@ EXCEPT !.send_reqs = [@ EXCEPT ![i] = "complete"]],
               !.inflight = @ \cup {[from |-> r, to |-> SendTo(r, i, ovl.P), tag |-> i,
                                     data |-> ovl.st[r].local_results[HalfOf(i)]]}]
  /\ OvlFrame

\* a buffered message reaches its matching receive
OvlDeliver ==
  /\ \E msg \in ovl.inflight :
       \E j \in Idx(ovl.P) :
         /\ OvlMatching(msg.to, j, msg.from, msg.tag)
         /\ ovl' = [OvlReceived(ovl, msg.to, j, msg.from, msg.tag, msg.data)
                      EXCEPT !.inflight = @ \ {msg}]
  /\ OvlFrame

OvlNext ==
  \/ OvlReturnEmpty
  \/ OvlCount
  \/ \E r \in Idx(ovl.P) :
       \/ OvlPostRecvs(r)
       \/ OvlIterate(r)
       \/ OvlWaitPrev(r)
       \/ OvlWaitLast(r)
       \/ OvlWaitAll(r)
       \/ \E i \in Idx(ovl.P) : OvlTransfer(r, i) \/ OvlBuffer(r, i)
  \/ OvlDeliver

SpecOvl == OvlInit /\ [][OvlNext]_vars

\* every rank runs and the library makes progress: a step that can be
\* taken is eventually taken
SpecOvlLive == OvlInitLive /\ [][OvlNext]_vars /\ WF_vars(OvlNext)

OvlAllDone == \A r \in Idx(ovl.P) : ovl.st[r].pc = "done"

\* no receive got another count than the one announced, no send was
\* matched by more than one receive, and a rank that returned from the
\* exchange has every request complete, every send of every rank that
\* returned being matched by one receive
OvlMatchedOnce ==
  /\ ~ ovl.mismatch
  /\ \A x \in DOMAIN ovl.matches : ovl.matches[x] <= 1
  /\ \A r \in Idx(ovl.P) :
       ovl.st[r].pc = "done" /\ ~ OvlEmpty =>
         /\ \A j \in Idx(ovl.P) :
              /\ ovl.st[r].send_reqs[j] = "complete"
              /\ ovl.st[r].recv_reqs[j] = "complete"
         /\ \A src \in Idx(ovl.P) :
              ovl.st[r].results[src] = OvlProcessFind(ovl.db[src], ovl.st[src].keys[r])
  /\ OvlAllDone /\ ~ OvlEmpty => \A x \in DOMAIN ovl.matches : ovl.matches[x] = 1

\* C36: in find_overlap on more than one rank every send (to rank + i, tag
\* i) is matched by exactly one receive (from rank - i, tag i) carrying the
\* count the counts all-to-all announced, every request completes, and
\* find_overlap returns on every rank
T_C36 == [] OvlMatchedOnce /\ <> OvlAllDone

\* three ranks returned after rank 0 received the two entries of rank 2
W_C36 ==
  /\ ovl.P = 3
  /\ OvlAllDone
  /\ ovl.st[0].results[2] = <<2, 2>>
  /\ ovl.matches[<<2, 1>>] = 1

\* C37: a half of local_results is never written while a send reading it
\* is active: when iteration i >= 2 is about to write half i % 2, send i - 2
\* has completed; and the results written for a destination never exceed
\* max_send_count, the size of a half
T_C37 ==
  \A r \in Idx(ovl.P) :
    /\ ~ ovl.st[r].overwritten
    /\ ~ ovl.st[r].overflow
    /\ \A h \in {0, 1} : Len(ovl.st[r].local_results[h]) <= ovl.st[r].max_send_count
    /\ ovl.st[r].pc = "iter" /\ ovl.st[r].i >= 2 =>
         ovl.st[r].send_reqs[ovl.st[r].i - 2] = "complete"

\* rank 2 of three wrote half 0 a second time, in iteration 2, while send 1
\* of the other half is still active
W_C37 ==
  /\ ovl.P = 3
  /\ ovl.st[2].pc = "wait_prev"
  /\ ovl.st[2].i = 2
  /\ ovl.st[2].local_results[0] = <<2, 2>>
  /\ ovl.st[2].send_reqs[1] = "active"
  /\ ovl.st[2].send_reqs[2] = "active"

(***************************************************************************)
(* SpecMM: the local operations of one unordered_multimap.  mmap is        *)
(*   c                   the container: entries per key, bucket count      *)
(*   local_changed       the flag of unordered_map_base                    *)
(*   local_unique_count  the cached number of distinct keys                *)
(*   called              the query that returned last, none after a change *)
(*   unique_size         what local_unique_size returned last              *)
(*   multiplicity        what get_multiplicity returned last, as the       *)
(*                       quotient num / den of two floats                  *)
(*   cleared             local_clear or local_reset was called             *)
(***************************************************************************)
\* most entries the multimap holds
MaxEntries == 3

\* keys of the multimap
MMKeys == {0, 1}

\* batches handed to one insert or erase call
MMBatches == { <<0>>, <<1>>, <<0, 0>>, <<0, 1>> }

MMEmptyTable == [entries |-> [k \in MMKeys |-> 0], buckets |-> 1]

\* c.size() of the multimap: every entry counts
MMSize(c) == SumOver(c.entries, MMKeys)

\* the keys with at least one entry
MMDistinct(c) == {k \in MMKeys : c.entries[k] > 0}

RECURSIVE MMEmplaceAll(_, _)
\* for (auto it = first; it != last; ++it) c.emplace(*it);
MMEmplaceAll(c, batch) ==
  IF batch = <<>> THEN c
  ELSE MMEmplaceAll([c EXCEPT !.entries[batch[1]] = @ + 1], Tail(batch))

RECURSIVE MMEraseAll(_, _)
\* QueryProcessor::process with erase_element: db.erase(v) for every key
MMEraseAll(c, keys) ==
  IF keys = <<>> THEN c
  ELSE MMEraseAll([c EXCEPT !.entries[keys[1]] = 0], Tail(keys))

\* local_changed after local_clear and local_reset: neither writes the flag
FlagAfterClear(flag) == flag

MMFrame ==
  UNCHANGED <<comm_size, kmer_size, bin, ext, rk, loc, net, rsv, mz, cnt, own, ovl, fnd>>

MMInit ==
  /\ comm_size = 1
  /\ kmer_size = 0
  /\ bin = Unused
  /\ ext = Unused
  /\ rk = Unused
  /\ loc = Unused
  /\ net = Unused
  /\ rsv = Unused
  /\ mz = Unused
  /\ cnt = Unused /\ own = Unused /\ ovl = Unused /\ fnd = Unused
  /\ mmap = [c |-> MMEmptyTable, local_changed |-> FALSE, local_unique_count |-> 0,
             called |-> "none", unique_size |-> 0,
             multiplicity |-> [num |-> 1, den |-> 1], cleared |-> FALSE]

\* unordered_map_base::local_insert(first, last)
MMInsert ==
  /\ \E batch \in MMBatches :
       /\ MMSize(mmap.c) + Len(batch) <= MaxEntries
       /\ LET reserved == local_reserve(mmap.c, MMSize(mmap.c) + Len(batch))
              after == MMEmplaceAll(reserved, batch)
          IN mmap' = [mmap EXCEPT
                        !.c = after,
                        !.local_changed = @ \/ MMSize(after) # MMSize(mmap.c),
                        !.called = "none"]
  /\ MMFrame

\* unordered_map_base::erase(erase_element, keys) on one rank, default predicate
MMErase ==
  /\ \E keys \in MMBatches :
       LET after == MMEraseAll(mmap.c, keys)
       IN mmap' = [mmap EXCEPT
                     !.c = after,
                     !.local_changed = @ \/ MMSize(mmap.c) # MMSize(after),
                     !.called = "none"]
  /\ MMFrame

\* local_clear: c.clear()
MMLocalClear ==
  /\ mmap' = [mmap EXCEPT
                !.c = [@ EXCEPT !.entries = MMEmptyTable.entries],
                !.local_changed = FlagAfterClear(@),
                !.called = "none",
                !.cleared = TRUE]
  /\ MMFrame

\* local_reset: decltype(c) tmp; tmp.swap(c);
MMLocalReset ==
  /\ mmap' = [mmap EXCEPT
                !.c = MMEmptyTable,
                !.local_changed = FlagAfterClear(@),
                !.called = "none",
                !.cleared = TRUE]
  /\ MMFrame

\* unordered_multimap::local_unique_size on the state m: the state after
\* the call, the value returned being its local_unique_count
MMUniqueSize(m) ==
  IF m.local_changed
  THEN [m EXCEPT !.local_unique_count = Cardinality(MMDistinct(m.c)),
                 !.local_changed = FALSE]
  ELSE m

MMLocalUniqueSize ==
  /\ LET m == MMUniqueSize(mmap)
     IN mmap' = [m EXCEPT !.called = "local_unique_size",
                          !.unique_size = m.local_unique_count]
  /\ MMFrame

\* unordered_multimap::get_multiplicity
MMGetMultiplicity ==
  /\ LET m == MMUniqueSize(mmap)
         n_unique == m.local_unique_count
     IN mmap' = [m EXCEPT
                   !.called = "get_multiplicity",
                   !.multiplicity =
                      IF n_unique > 0
                      THEN [num |-> ToFloat(MMSize(m.c)), den |-> ToFloat(n_unique)]
                      ELSE [num |-> 1, den |-> 1]]
  /\ MMFrame

MMNext ==
  \/ MMInsert
  \/ MMErase
  \/ MMLocalClear
  \/ MMLocalReset
  \/ MMLocalUniqueSize
  \/ MMGetMultiplicity

SpecMM == MMInit /\ [][MMNext]_vars

\* the quotient local_size / distinct keys, 1.0 on an empty container
MMExactMultiplicity(c) ==
  IF MMDistinct(c) = {} THEN [num |-> 1, den |-> 1]
  ELSE [num |-> MMSize(c), den |-> Cardinality(MMDistinct(c))]

\* the two quotients are the same number
SameQuotient(a, b) == a.num * b.den = b.num * a.den

\* C38 as stated: after any sequence of the operations local_unique_size
\* returns the number of distinct keys, and get_multiplicity returns
\* local_size divided by it, 1.0 on an empty container
CE_C38 ==
  /\ mmap.called = "local_unique_size" =>
       mmap.unique_size = Cardinality(MMDistinct(mmap.c))
  /\ mmap.called = "get_multiplicity" =>
       SameQuotient(mmap.multiplicity, MMExactMultiplicity(mmap.c))

\* as long as neither local_clear nor local_reset was called, both queries
\* are exact
QueriesExactWithoutClear == ~ mmap.cleared => CE_C38

(***************************************************************************)
(* SpecFnd: the local part of one find(keys, sorted_input, pred) call on a *)
(* counting map (unordered_map::find, LocalFind of unordered_map).  fnd is *)
(*   pc        process, returned, fault                                    *)
(*   db        the container: the count of every key it holds              *)
(*   keys      the keys asked for, without repeats                         *)
(*   pred      the predicate                                               *)
(*   i         how many keys were processed                                *)
(*   results   the entries written to the output                           *)
(*   count     the sum of what find_element returned                       *)
(*   advanced_end   an iterator equal to db.end() was incremented          *)
(***************************************************************************)
\* most keys asked for in one call
MaxFindKeys == 2

\* keys of the counting map in SpecFnd
FndKeys == {0, 1, 2}

\* the containers explored: any set of the keys, each with count 1 or 2
FndTables == UNION { [S -> {1, 2}] : S \in SUBSET FndKeys }

\* the key vectors explored: no key twice (fsc::unique was applied)
FndQueries ==
  { q \in UNION { [1 .. n -> FndKeys] : n \in 1 .. MaxFindKeys } :
      \A a, b \in DOMAIN q : a # b => q[a] # q[b] }

\* the predicates explored: TruePredicate, and predicates whose element
\* test accepts the keys of accepts and whose range test gives range
FndPredicates ==
  { [is_true |-> TRUE, accepts |-> FndKeys, range |-> TRUE] } \cup
  { [is_true |-> FALSE, accepts |-> S, range |-> b] : S \in {{}, {0, 1}}, b \in BOOLEAN }

\* ++next on an iterator equal to db.end(): undefined; the builds either go
\* on with some iterator value or fault on the dereference of the null node
AdvanceEndOutcomes == {"continues", "fault"}

\* unordered_map::LocalFind::operator() (unfiltered) on key v
FindUnfiltered(st, v) ==
  IF v \in DOMAIN st.db
  THEN [st EXCEPT !.results = Append(@, [first |-> v, second |-> st.db[v]]),
                  !.count = @ + 1]
  ELSE st

\* unordered_map::LocalFind::operator() (filtered) on key v:
\*   auto iter = db.find(v);  auto next = iter;  ++next;
\*   if (iter != db.end()) { if (pred(iter, next) && pred(*iter)) { ... return 1; } }
\*   return 0;
FindFiltered(st, v, outcome) ==
  IF v \notin DOMAIN st.db
  THEN IF outcome = "fault"
       THEN [st EXCEPT !.advanced_end = TRUE, !.pc = "fault"]
       ELSE [st EXCEPT !.advanced_end = TRUE]
  ELSE IF st.pred.range /\ v \in st.pred.accepts
       THEN [st EXCEPT !.results = Append(@, [first |-> v, second |-> st.db[v]]),
                       !.count = @ + 1]
       ELSE st

FndFrame ==
  UNCHANGED <<comm_size, kmer_size, bin, ext, rk, loc, net, rsv, mz, cnt, own, ovl, mmap>>

FndInit ==
  /\ comm_size = 1
  /\ kmer_size = 0
  /\ bin = Unused
  /\ ext = Unused
  /\ rk = Unused
  /\ loc = Unused
  /\ net = Unused
  /\ rsv = Unused
  /\ mz = Unused
  /\ cnt = Unused /\ own = Unused /\ ovl = Unused /\ mmap = Unused
  /\ \E db \in FndTables, keys \in FndQueries, pred \in FndPredicates :
       fnd = [pc |-> "process", db |-> db, keys |-> keys, pred |-> pred, i |-> 0,
              results |-> <<>>, count |-> 0, advanced_end |-> FALSE]

\* if (this->empty() || ::dsc::empty(keys, this->comm)) return results;
FndReturnEmpty ==
  /\ fnd.pc = "process"
  /\ fnd.i = 0
  /\ DOMAIN fnd.db = {}
  /\ fnd' = [fnd EXCEPT !.pc = "returned"]
  /\ FndFrame

\* one iteration of QueryProcessor::process: op(db, *it, output) for
\* TruePredicate, op(db, *it, output, pred) otherwise
FndProcessKey ==
  /\ fnd.pc = "process"
  /\ DOMAIN fnd.db # {}
  /\ fnd.i < Len(fnd.keys)
  /\ LET v == fnd.keys[fnd.i + 1]
         st == [fnd EXCEPT !.i = @ + 1]
     IN IF fnd.pred.is_true
        THEN fnd' = FindUnfiltered(st, v)
        ELSE \E outcome \in AdvanceEndOutcomes : fnd' = FindFiltered(st, v, outcome)
  /\ FndFrame

\* return results
FndReturn ==
  /\ fnd.pc = "process"
  /\ DOMAIN fnd.db # {}
  /\ fnd.i = Len(fnd.keys)
  /\ fnd' = [fnd EXCEPT !.pc = "returned"]
  /\ FndFrame

FndNext == FndReturnEmpty \/ FndProcessKey \/ FndReturn

SpecFnd == FndInit /\ [][FndNext]_vars

\* the keys processed so far that the container does not hold
FndAbsentProcessed == { fnd.keys[j] : j \in 1 .. fnd.i } \ DOMAIN fnd.db

\* no entry was written for an absent key, and the count is the number of
\* entries written
FndNoEntryForAbsent ==
  /\ \A j \in 1 .. Len(fnd.results) : fnd.results[j].first \notin FndAbsentProcessed
  /\ fnd.count = Len(fnd.results)

\* C39 as stated: a filtered find of an absent key writes no entry, counts
\* 0 for it, and never advances or dereferences an iterator at the end
CE_C39 ==
  ~ fnd.pred.is_true =>
    /\ FndNoEntryForAbsent
    /\ ~ fnd.advanced_end
    /\ fnd.pc # "fault"

\* what the code achieves: whenever the call goes on, no entry is written
\* for an absent key
NoEntryForAbsentKey == FndNoEntryForAbsent

(***************************************************************************)
(* Spec: one call of insert on every rank of the communicator.  rk[r] is   *)
(* the state of rank r:                                                    *)
(*   pc      where the rank is: start, allreduce, binning, a2a_sizes,      *)
(*           a2a_data, local, done                                         *)
(*   read, input              the rank's read and the tuples made of it    *)
(*   local_load               the histogram as the caller filled it        *)
(*   minimizer_kmer_load_map  the histogram argument, reduced in place     *)
(*   rank_load, minimizer_rank             the results of the binning      *)
(*   send, recv_counts, output, total_no_kmers    the exchange             *)
(*   c, local_changed, count  the container, its flag, the returned count  *)
(*   collectives              the exchanges of insert the rank has entered *)
(*   run, prev                which run of the pipeline this is, and what  *)
(*                            the run before it computed (SpecTwice)       *)
(***************************************************************************)
\* base codes of the reads in Spec
InputCodes == {0, 1}

\* the reads a rank may hold in Spec: every read of up to 3 bases, the
\* shorter ones contributing no k-mer
InputReads == ReadsUpTo(InputCodes, 3)

\* k-mer and minimizer length in Spec
InputK == 2

InputM == 1

\* no run before this one
NoRun == [ran |-> FALSE, read |-> <<>>, minimizer_kmer_load_map |-> <<>>,
          minimizer_rank |-> <<>>, c |-> EmptyTable, local_changed |-> FALSE]

RankInit(read) ==
  LET input == Supermers(read, InputK, InputM)
      H     == LocalHistogram(input, InputK, NumMinimizers(InputM))
  IN [pc |-> "start", read |-> read, input |-> input,
      local_load |-> H, minimizer_kmer_load_map |-> H,
      rank_load |-> <<>>, minimizer_rank |-> <<>>,
      send |-> <<>>, recv_counts |-> <<>>, output |-> <<>>,
      total_no_kmers |-> 0,
      c |-> EmptyTable, local_changed |-> FALSE, count |-> 0,
      collectives |-> <<>>,
      run |-> 1, prev |-> NoRun]

Init ==
  /\ comm_size \in 1 .. MaxP
  /\ mz = Unused
  /\ cnt = Unused /\ own = Unused /\ ovl = Unused /\ mmap = Unused /\ fnd = Unused
  /\ kmer_size = InputK
  /\ bin = Unused
  /\ ext = Unused
  /\ loc = Unused
  /\ net = Unused
  /\ rsv = Unused
  /\ \E reads \in [Ranks -> InputReads] :
       rk = [r \in Ranks |-> RankInit(reads[r])]

AllAt(pc) == \A r \in Ranks : rk[r].pc = pc

\* the early return taken by each rank on its own input.size() == 0
EmptyCheckLocal ==
  /\ AllAt("start")
  /\ rk' = [r \in Ranks |->
              IF rk[r].input = <<>>
              THEN [rk[r] EXCEPT !.pc = "done", !.count = 0]
              ELSE [rk[r] EXCEPT !.pc = "allreduce"]]
  /\ UNCHANGED <<comm_size, kmer_size, bin, ext, loc, net, rsv, mz,
                 cnt, own, ovl, mmap, fnd>>

\* no early return at all
EmptyCheckNoReturn ==
  /\ AllAt("start")
  /\ rk' = [r \in Ranks |-> [rk[r] EXCEPT !.pc = "allreduce"]]
  /\ UNCHANGED <<comm_size, kmer_size, bin, ext, loc, net, rsv, mz,
                 cnt, own, ovl, mmap, fnd>>

\* lines 2218-2221: every rank asks dsc::empty; all return 0 on empty input
EmptyCheck ==
  /\ AllAt("start")
  /\ rk' = [r \in Ranks |->
              IF GlobalEmpty(rk)
              THEN [rk[r] EXCEPT !.pc = "done", !.count = 0]
              ELSE [rk[r] EXCEPT !.pc = "allreduce"]]
  /\ UNCHANGED <<comm_size, kmer_size, bin, ext, loc, net, rsv, mz,
                 cnt, own, ovl, mmap, fnd>>

AllReduceSkipped ==
  /\ AllAt("allreduce")
  /\ rk' = [r \in Ranks |-> [rk[r] EXCEPT !.pc = "binning"]]
  /\ UNCHANGED <<comm_size, kmer_size, bin, ext, loc, net, rsv, mz,
                 cnt, own, ovl, mmap, fnd>>

\* lines 2223-2226: the all-reduce of the histogram argument
AllReduce ==
  /\ AllAt("allreduce")
  /\ rk' = [r \in Ranks |->
              [rk[r] EXCEPT !.pc = "binning",
                            !.minimizer_kmer_load_map = AllReduceSum(rk),
                            !.collectives = Append(@, "all_reduce")]]
  /\ UNCHANGED <<comm_size, kmer_size, bin, ext, loc, net, rsv, mz,
                 cnt, own, ovl, mmap, fnd>>

\* rank r has run the binning of this call
Binned(r) ==
  /\ rk[r].pc \in {"a2a_sizes", "a2a_data", "local", "done"}
  /\ ~ GlobalEmpty(rk)

\* a sort whose order among equal loads varies from call to call
BinningFreshOrder(r) ==
  /\ rk[r].pc = "binning"
  /\ LET H == rk[r].minimizer_kmer_load_map
     IN \E st \in { GreedyBinning(H, comm_size, s) : s \in SortOutcomes(DOMAIN H, H) } :
          rk' = [rk EXCEPT ![r] =
                   [@ EXCEPT !.pc = IF comm_size > 1 THEN "a2a_sizes" ELSE "local",
                             !.rank_load = st.rank_load,
                             !.minimizer_rank = st.minimizer_rank]]
  /\ UNCHANGED <<comm_size, kmer_size, bin, ext, loc, net, rsv, mz,
                 cnt, own, ovl, mmap, fnd>>

\* lines 2241-2320 on rank r: sort, greedy binning, tuple_to_rank2; then
\* line 2331 selects the exchange only when comm.size() > 1.  std::sort is
\* a function of its input: sorting the same histogram gives the same
\* permutation, hence the same rank_load and minimizer_rank, on every rank
\* and in every run.
Binning(r) ==
  /\ rk[r].pc = "binning"
  /\ LET H == rk[r].minimizer_kmer_load_map
     IN \E st \in { GreedyBinning(H, comm_size, s) : s \in SortOutcomes(DOMAIN H, H) } :
          /\ \A q \in Ranks :
               /\ (Binned(q) /\ rk[q].minimizer_kmer_load_map = H)
                    => rk[q].minimizer_rank = st.minimizer_rank
               /\ (rk[q].prev.ran /\ rk[q].prev.minimizer_kmer_load_map = H)
                    => rk[q].prev.minimizer_rank = st.minimizer_rank
          /\ rk' = [rk EXCEPT ![r] =
                      [@ EXCEPT !.pc = IF comm_size > 1 THEN "a2a_sizes" ELSE "local",
                                !.rank_load = st.rank_load,
                                !.minimizer_rank = st.minimizer_rank]]
  /\ UNCHANGED <<comm_size, kmer_size, bin, ext, loc, net, rsv, mz,
                 cnt, own, ovl, mmap, fnd>>

\* the exchange handed this->tuple_to_rank: the owner is a hash modulo P
SizesAllToAllHashMod ==
  /\ AllAt("a2a_sizes")
  /\ LET h       == [m \in Idx(NumMinimizers(InputM)) |-> m + 1]
         owner   == [m \in Idx(NumMinimizers(InputM)) |->
                       TupleToRank(h, [minimizer |-> m], comm_size)]
         buckets == [r \in Ranks |-> [p \in Ranks |-> Bucket(rk[r].input, owner, p)]]
     IN rk' = [r \in Ranks |->
                 [rk[r] EXCEPT !.pc = "a2a_data",
                               !.collectives = Append(@, "sizes_all_to_all"),
                               !.send = [p \in Ranks |-> SerializeBucket(buckets[r][p])],
                               !.recv_counts = [p \in Ranks |-> Len(buckets[p][r])]]]
  /\ UNCHANGED <<comm_size, kmer_size, bin, ext, loc, net, rsv, mz,
                 cnt, own, ovl, mmap, fnd>>

\* distribute_supermers, first collective: bucket by owner, exchange the counts
SizesAllToAll ==
  /\ AllAt("a2a_sizes")
  /\ LET buckets == [r \in Ranks |-> [p \in Ranks |->
                       Bucket(rk[r].input, rk[r].minimizer_rank, p)]]
     IN rk' = [r \in Ranks |->
                 [rk[r] EXCEPT !.pc = "a2a_data",
                               !.collectives = Append(@, "sizes_all_to_all"),
                               !.send = [p \in Ranks |-> SerializeBucket(buckets[r][p])],
                               !.recv_counts = [p \in Ranks |-> Len(buckets[p][r])]]]
  /\ UNCHANGED <<comm_size, kmer_size, bin, ext, loc, net, rsv, mz,
                 cnt, own, ovl, mmap, fnd>>

\* distribute_supermers, second collective: the variable-length exchange
DataAllToAll ==
  /\ AllAt("a2a_data")
  /\ rk' = [r \in Ranks |->
              LET out == Deserialize(ConcatFrom(rk, r, 0))
              IN [rk[r] EXCEPT !.pc = "local",
                               !.collectives = Append(@, "data_all_to_all"),
                               !.output = out,
                               !.total_no_kmers = CountKmers(out, kmer_size)]]
  /\ UNCHANGED <<comm_size, kmer_size, bin, ext, loc, net, rsv, mz,
                 cnt, own, ovl, mmap, fnd>>

\* lines 2348-2425 on rank r: reserve, expand output into kmers, local_insert
LocalInsert(r) ==
  /\ rk[r].pc = "local"
  /\ LET before   == TableSize(rk[r].c)
         reserved == local_reserve(rk[r].c, rk[r].total_no_kmers)
         kmers    == ExpandAll(rk[r].output, kmer_size)
         after    == local_insert(reserved, kmers)
     IN rk' = [rk EXCEPT ![r] =
                 [@ EXCEPT !.pc = "done",
                           !.c = after,
                           !.local_changed = (@ \/ TableSize(after) # before),
                           !.count = TableSize(after) - before]]
  /\ UNCHANGED <<comm_size, kmer_size, bin, ext, loc, net, rsv, mz,
                 cnt, own, ovl, mmap, fnd>>

Next ==
  \/ EmptyCheck
  \/ AllReduce
  \/ \E r \in Ranks : Binning(r)
  \/ SizesAllToAll
  \/ DataAllToAll
  \/ \E r \in Ranks : LocalInsert(r)

Spec == Init /\ [][Next]_vars

\* the pipeline is run again on the same reads by the same ranks: every rank
\* starts over with a fresh container and a freshly filled histogram
Rerun ==
  /\ \A r \in Ranks : rk[r].pc = "done" /\ rk[r].run = 1
  /\ rk' = [r \in Ranks |->
              [RankInit(rk[r].read) EXCEPT
                 !.run = 2,
                 !.prev = [ran |-> TRUE,
                           read |-> rk[r].read,
                           minimizer_kmer_load_map |-> rk[r].minimizer_kmer_load_map,
                           minimizer_rank |-> rk[r].minimizer_rank,
                           c |-> rk[r].c,
                           local_changed |-> rk[r].local_changed]]]
  /\ UNCHANGED <<comm_size, kmer_size, bin, ext, loc, net, rsv, mz,
                 cnt, own, ovl, mmap, fnd>>

NextTwice == Next \/ Rerun

SpecTwice == Init /\ [][NextTwice]_vars

\* the reads of SpecSeq: one or two k-mers AA, one or two k-mers CC
SeqReads == {<<0, 0>>, <<0, 0, 0>>, <<1, 1>>, <<1, 1, 1>>}

InitSeq ==
  /\ comm_size \in 1 .. MaxP
  /\ mz = Unused
  /\ cnt = Unused /\ own = Unused /\ ovl = Unused /\ mmap = Unused /\ fnd = Unused
  /\ kmer_size = InputK
  /\ bin = Unused
  /\ ext = Unused
  /\ loc = Unused
  /\ net = Unused
  /\ rsv = Unused
  /\ \E reads \in [Ranks -> SeqReads] :
       rk = [r \in Ranks |-> RankInit(reads[r])]

\* the batches of the second call: reads on every rank, or no input at all
SeqBatches == [Ranks -> SeqReads] \cup {[r \in Ranks |-> <<>>]}

\* insert is called again on the same map with another batch: the container
\* and its flag are kept, the histogram comes with the call.  With a batch
\* that is empty on every rank the histogram argument is either freshly
\* zeroed or the array the caller filled for the call before (stale).
NextBatch ==
  /\ \A r \in Ranks : rk[r].pc = "done" /\ rk[r].run = 1
  /\ \E reads \in SeqBatches :
       \E stale \in IF \A r \in Ranks : reads[r] = <<>> THEN BOOLEAN ELSE {FALSE} :
         rk' = [r \in Ranks |->
                  LET H == IF stale THEN rk[r].local_load
                           ELSE RankInit(reads[r]).local_load
                  IN [RankInit(reads[r]) EXCEPT
                        !.local_load = H,
                        !.minimizer_kmer_load_map = H,
                        !.c = rk[r].c,
                        !.local_changed = rk[r].local_changed,
                        !.run = 2,
                        !.prev = [ran |-> TRUE,
                                  read |-> rk[r].read,
                                  minimizer_kmer_load_map |-> rk[r].minimizer_kmer_load_map,
                                  minimizer_rank |-> rk[r].minimizer_rank,
                                  c |-> rk[r].c,
                                  local_changed |-> rk[r].local_changed]]]
  /\ UNCHANGED <<comm_size, kmer_size, bin, ext, loc, net, rsv, mz,
                 cnt, own, ovl, mmap, fnd>>

NextSeq == Next \/ NextBatch

SpecSeq == InitSeq /\ [][NextSeq]_vars

\* the reads of SpecLive: without a k-mer, with one, with two
LiveReads == {<<>>, <<0>>, <<0, 0>>, <<0, 1>>, <<0, 1, 1>>, <<1, 0, 0>>}

InitLive ==
  /\ comm_size \in 1 .. MaxP
  /\ mz = Unused
  /\ cnt = Unused /\ own = Unused /\ ovl = Unused /\ mmap = Unused /\ fnd = Unused
  /\ kmer_size = InputK
  /\ bin = Unused
  /\ ext = Unused
  /\ loc = Unused
  /\ net = Unused
  /\ rsv = Unused
  /\ \E reads \in [Ranks -> LiveReads] :
       rk = [r \in Ranks |-> RankInit(reads[r])]

\* every rank keeps executing its code, and a collective completes once all
\* ranks have entered it
SpecLive == InitLive /\ [][Next]_vars /\ WF_vars(Next)

(***************************************************************************)
(* SpecLoc: the local part of insert on one rank (lines 2348-2425 and the  *)
(* loops of local_insert), one loop iteration per step.  loc is            *)
(*   pc              reserve, expand, insert, done                         *)
(*   output          the super-mers received, total_no_kmers their k-mers  *)
(*   pred            the predicate argument                                *)
(*   c0, c           the container on entry and now                        *)
(*   kmers, s        the vector kmers and the number of super-mers read    *)
(*   it              the number of k-mers local_insert has visited         *)
(*   before, before_li   c.size() on entry of insert and of local_insert   *)
(*   count, local_changed                                                  *)
(***************************************************************************)
\* largest batch of received super-mers explored
MaxRecv == 2

\* the super-mers a rank may receive: 1 to 3 bases, the one-base ones shorter
\* than a k-mer
RecvSupermers == ReadsUpTo(InputCodes, 3) \ {<<>>}

\* the container as an earlier insert left it: still empty, or holding AA twice
EarlierTables ==
  { local_insert(EmptyTable, ExpandAll(o, InputK)) : o \in {<<>>, <<(<<0, 0, 0>>)>>} }

\* a predicate is the set of keys it accepts; is_true marks TruePredicate
TruePredicate == [is_true |-> TRUE, accepts |-> Idx(Pow2(2 * InputK))]

Predicates ==
  {TruePredicate} \cup { [is_true |-> FALSE, accepts |-> S] : S \in {{}, {0, 1}} }

\* pred(*it)
PredHolds(pred, x) == x \in pred.accepts

InsertOneUnfiltered(c, x, pred) == InsertOne(c, x)

\* one iteration of local_insert(first, last, pred)
InsertOnePred(c, x, pred) == IF PredHolds(pred, x) THEN InsertOne(c, x) ELSE c

\* the state on entry of the local part
LocEntry(output, c0, pred, K) ==
  [pc |-> "reserve", output |-> output,
   total_no_kmers |-> CountKmers(output, K),
   pred |-> pred, c0 |-> c0, c |-> c0,
   kmers |-> <<>>, s |-> 0, it |-> 0,
   before |-> 0, before_li |-> 0,
   count |-> 0, local_changed |-> FALSE]

LocInit ==
  /\ comm_size = 2
  /\ mz = Unused
  /\ cnt = Unused /\ own = Unused /\ ovl = Unused /\ mmap = Unused /\ fnd = Unused
  /\ kmer_size = InputK
  /\ bin = Unused
  /\ ext = Unused
  /\ rk = Unused
  /\ net = Unused
  /\ rsv = Unused
  /\ \E output \in ReadsUpTo(RecvSupermers, MaxRecv), c0 \in EarlierTables,
        pred \in Predicates :
       loc = LocEntry(output, c0, pred, InputK)

\* lines 2350-2353: before = c.size(); local_reserve(total_no_kmers)
LocReserveSt(st) ==
  [st EXCEPT !.pc = "expand",
             !.before = TableSize(st.c),
             !.c = local_reserve(st.c, st.total_no_kmers)]

\* the vector kmers declared inside the loop: each super-mer starts it anew
LocExpandStLastOnly(st, K) ==
  [st EXCEPT !.s = @ + 1,
             !.kmers = ExpandSupermer(st.output[st.s + 1], K)]

\* lines 2356-2378: one super-mer of output is expanded into kmers
LocExpandSt(st, K) ==
  [st EXCEPT !.s = @ + 1,
             !.kmers = @ \o ExpandSupermer(st.output[st.s + 1], K)]

\* lines 2392-2394, then the entry of local_insert (lines 1604-1607)
LocInsertBeginSt(st) ==
  [st EXCEPT !.pc = "insert",
             !.local_changed = (@ \/ TableSize(st.c) # st.before),
             !.before_li = TableSize(st.c),
             !.c = local_reserve(st.c, TableSize(st.c) + Len(st.kmers)),
             !.it = 0]

\* lines 2413-2416 select the overload; one iteration of its loop
LocInsertOneSt(st) ==
  LET x == st.kmers[st.it + 1]
  IN [st EXCEPT !.it = @ + 1,
                !.c = IF st.pred.is_true
                      THEN InsertOne(st.c, x)
                      ELSE InsertOnePred(st.c, x, st.pred)]

\* the return value counts the pairs visited
LocReturnStOccurrences(st) ==
  [st EXCEPT !.pc = "done",
             !.local_changed = (@ \/ TableSize(st.c) # st.before_li),
             !.count = @ + Len(st.kmers)]

\* the end of local_insert and of insert: count += c.size() - before
LocReturnSt(st) ==
  [st EXCEPT !.pc = "done",
             !.local_changed = (@ \/ TableSize(st.c) # st.before_li),
             !.count = @ + (TableSize(st.c) - st.before_li)]

\* the step the local part takes from st
LocStep(st, K) ==
  IF st.pc = "reserve" THEN LocReserveSt(st)
  ELSE IF st.pc = "expand"
       THEN IF st.s < Len(st.output) THEN LocExpandSt(st, K) ELSE LocInsertBeginSt(st)
       ELSE IF st.it < Len(st.kmers) THEN LocInsertOneSt(st) ELSE LocReturnSt(st)

RECURSIVE LocRun(_, _)
\* the local part run from st to its return
LocRun(st, K) ==
  IF st.pc = "done" THEN st
  ELSE CHOOSE res \in { LocRun(nx, K) : nx \in {LocStep(st, K)} } : TRUE

LocReserve ==
  /\ loc.pc = "reserve"
  /\ loc' = LocReserveSt(loc)
  /\ UNCHANGED <<comm_size, kmer_size, bin, ext, rk, net, rsv, mz,
                 cnt, own, ovl, mmap, fnd>>

LocExpand ==
  /\ loc.pc = "expand"
  /\ loc.s < Len(loc.output)
  /\ loc' = LocExpandSt(loc, kmer_size)
  /\ UNCHANGED <<comm_size, kmer_size, bin, ext, rk, net, rsv, mz,
                 cnt, own, ovl, mmap, fnd>>

LocInsertBegin ==
  /\ loc.pc = "expand"
  /\ loc.s >= Len(loc.output)
  /\ loc' = LocInsertBeginSt(loc)
  /\ UNCHANGED <<comm_size, kmer_size, bin, ext, rk, net, rsv, mz,
                 cnt, own, ovl, mmap, fnd>>

LocInsertOne ==
  /\ loc.pc = "insert"
  /\ loc.it < Len(loc.kmers)
  /\ loc' = LocInsertOneSt(loc)
  /\ UNCHANGED <<comm_size, kmer_size, bin, ext, rk, net, rsv, mz,
                 cnt, own, ovl, mmap, fnd>>

LocReturn ==
  /\ loc.pc = "insert"
  /\ loc.it >= Len(loc.kmers)
  /\ loc' = LocReturnSt(loc)
  /\ UNCHANGED <<comm_size, kmer_size, bin, ext, rk, net, rsv, mz,
                 cnt, own, ovl, mmap, fnd>>

LocNext == LocReserve \/ LocExpand \/ LocInsertBegin \/ LocInsertOne \/ LocReturn

SpecLoc == LocInit /\ [][LocNext]_vars

(***************************************************************************)
(* Properties of the greedy binning loop (checked under SpecBin).          *)
(***************************************************************************)
BinH == bin.minimizer_kmer_load_map

BinLen == Cardinality(DOMAIN BinH)

RECURSIVE LoadVectors(_, _, _)
\* the rank-load vectors of all assignments of the minimizers in S to P ranks
LoadVectors(H, S, P) ==
  IF S = {} THEN {[r \in Idx(P) |-> 0]}
  ELSE LET m == CHOOSE x \in S : TRUE
       IN { [v EXCEPT ![r] = @ + H[m]] :
              v \in LoadVectors(H, S \ {m}, P), r \in Idx(P) }

\* the minimum over all assignments of minimizers to P ranks of the maximum load
OptMakespan(H, P) ==
  MinOf({ MaxOf({v[r] : r \in Idx(P)}) : v \in LoadVectors(H, DOMAIN H, P) })

\* the lowest rank id among the ranks of minimal load
LowestArgMin(load, P) ==
  CHOOSE r \in Idx(P) :
    /\ \A q \in Idx(P) : load[r] <= load[q]
    /\ \A q \in Idx(P) : q < r => load[q] > load[r]

ZeroCount == {m \in DOMAIN BinH : BinH[m] = 0}

Scenario6 == [m \in Idx(4) |-> IF m = 0 THEN 300 ELSE 100]

\* C6: the binner's output is a total function on minimizer indices: the
\* minimizer->rank array has the length of the histogram, every cell is
\* stored exactly once by the loop, and every cell holds a rank id in [0, P).
T_C6 ==
  /\ bin.pc \in {"loop", "done"} =>
       /\ DOMAIN bin.minimizer_rank = DOMAIN BinH
       /\ \A m \in DOMAIN BinH :
            /\ bin.minimizer_rank[m] \in 0 .. (comm_size - 1)
            /\ bin.writes[m] <= 1
  /\ bin.pc = "done" => \A m \in DOMAIN BinH : bin.writes[m] = 1

W_C6 ==
  /\ bin.pc = "done"
  /\ comm_size = 2
  /\ BinLen = 3
  /\ {bin.minimizer_rank[m] : m \in DOMAIN BinH} = {0, 1}

\* C7 as stated: minimizers are processed in decreasing order of histogram
\* value, and of two minimizers with equal value the one with the smaller
\* index is processed first.
CE_C7 ==
  \A a, b \in DOMAIN bin.order :
    a < b =>
      \/ BinH[bin.order[a]] > BinH[bin.order[b]]
      \/ /\ BinH[bin.order[a]] = BinH[bin.order[b]]
         /\ bin.order[a] < bin.order[b]

\* C7 amended: the loop processes every minimizer index once, in an order
\* in which the histogram value never increases; the relative order of
\* minimizers with equal value is left to std::sort.
T_C7 ==
  /\ \A a, b \in DOMAIN bin.order :
       a < b => /\ BinH[bin.order[a]] >= BinH[bin.order[b]]
                /\ bin.order[a] # bin.order[b]
  /\ \A a \in DOMAIN bin.order : bin.order[a] = bin.sorted[a - 1]
  /\ bin.pc = "done" => {bin.order[a] : a \in DOMAIN bin.order} = DOMAIN BinH

W_C7 ==
  /\ bin.pc = "done"
  /\ \E a, b \in DOMAIN bin.order :
       /\ a < b
       /\ BinH[bin.order[a]] = BinH[bin.order[b]]
       /\ bin.order[a] > bin.order[b]
  /\ \E a, b \in DOMAIN bin.order : BinH[bin.order[a]] > BinH[bin.order[b]]

\* C8: every iteration assigns the current minimizer to a rank whose load is
\* minimal at that moment, the lowest such rank id, and increases exactly
\* that rank's load by the minimizer's histogram value.
T_C8 ==
  [][ (bin.pc = "loop" /\ bin'.pc = "loop" /\ bin'.i = bin.i + 1) =>
        LET m == bin.sorted[bin.i]
            r == bin'.minimizer_rank[m]
        IN /\ r \in Ranks
           /\ \A q \in Ranks : bin.rank_load[r] <= bin.rank_load[q]
           /\ \A q \in Ranks : q < r => bin.rank_load[q] > bin.rank_load[r]
           /\ bin'.rank_load =
                [q \in Ranks |-> IF q = r THEN bin.rank_load[q] + BinH[m]
                                          ELSE bin.rank_load[q]]
           /\ \A k \in DOMAIN BinH :
                k # m => bin'.minimizer_rank[k] = bin.minimizer_rank[k] ]_vars

W_C8 ==
  /\ bin.pc = "loop"
  /\ comm_size = 2
  /\ bin.i = 3
  /\ BinH[bin.sorted[0]] = 200
  /\ BinH[bin.sorted[1]] = 100
  /\ BinH[bin.sorted[2]] = 100
  /\ bin.minimizer_rank[bin.sorted[0]] = 0
  /\ bin.minimizer_rank[bin.sorted[1]] = 1
  /\ bin.minimizer_rank[bin.sorted[2]] = 1
  /\ bin.rank_load = [q \in Idx(2) |-> 200]

\* C9 as stated: consecutive zero-count minimizers go to consecutive rank
\* ids modulo P.
CE_C9 ==
  bin.pc = "done" =>
    \A a \in DOMAIN bin.order :
      (/\ a + 1 \in DOMAIN bin.order
       /\ BinH[bin.order[a]] = 0
       /\ BinH[bin.order[a + 1]] = 0)
      => bin.minimizer_rank[bin.order[a + 1]] =
           (bin.minimizer_rank[bin.order[a]] + 1) % comm_size

\* C9 amended: all minimizers whose histogram count is zero are assigned to
\* one and the same rank, the lowest rank id among the ranks of minimal load
\* once the non-zero minimizers are placed; no round-robin takes place.
T_C9 ==
  bin.pc = "done" =>
    \A m \in ZeroCount :
      bin.minimizer_rank[m] = LowestArgMin(bin.rank_load, comm_size)

W_C9 ==
  /\ bin.pc = "done"
  /\ comm_size = 2
  /\ Cardinality(ZeroCount) >= 2
  /\ \A m \in ZeroCount : bin.minimizer_rank[m] = 1

\* C10: the maximum rank load produced by the binner is at most 4/3 of the
\* optimal makespan, and for the histogram [300,100,100,100] on 2 ranks it
\* is the optimum 300.
T_C10 ==
  bin.pc = "done" =>
    /\ 3 * MaxOf({bin.rank_load[r] : r \in Ranks})
         <= 4 * OptMakespan(BinH, comm_size)
    /\ (BinH = Scenario6 /\ comm_size = 2) =>
         /\ MaxOf({bin.rank_load[r] : r \in Ranks}) = 300
         /\ OptMakespan(BinH, comm_size) = 300

W_C10 ==
  /\ bin.pc = "done"
  /\ BinH = Scenario6
  /\ comm_size = 2
  /\ bin.rank_load = [q \in Idx(2) |-> 300]

\* a run in which the greedy result is strictly worse than the optimum
SuboptimalReached ==
  /\ bin.pc = "done"
  /\ MaxOf({bin.rank_load[r] : r \in Ranks}) > OptMakespan(BinH, comm_size)

NonZeroCount == DOMAIN BinH \ ZeroCount

\* C11: when at most P minimizers have a non-zero histogram count, the
\* binner assigns each of them to a rank of its own, and the maximum rank
\* load is the largest histogram value.
T_C11 ==
  (bin.pc = "done" /\ Cardinality(NonZeroCount) <= comm_size) =>
    /\ \A m1, m2 \in NonZeroCount :
         m1 # m2 => bin.minimizer_rank[m1] # bin.minimizer_rank[m2]
    /\ MaxOf({bin.rank_load[r] : r \in Ranks}) = MaxOf({BinH[m] : m \in DOMAIN BinH})

W_C11 ==
  /\ bin.pc = "done"
  /\ comm_size = 2
  /\ BinH = [m \in Idx(2) |-> 100]
  /\ bin.minimizer_rank[0] # bin.minimizer_rank[1]
  /\ bin.rank_load = [q \in Idx(2) |-> 100]

\* C33: after the greedy binner finishes, the rank loads sum to the sum of
\* the histogram, and for any two ranks i and j the final load of i exceeds
\* the final load of j by at most the largest histogram value.
T_C33 ==
  bin.pc = "done" =>
    /\ SumOver(bin.rank_load, Ranks) = SumOver(BinH, DOMAIN BinH)
    /\ \A i, j \in Ranks :
         bin.rank_load[i] - bin.rank_load[j] <= MaxOf({BinH[m] : m \in DOMAIN BinH})

\* 300, 100 and 100 went to two ranks: the loads 300 and 200 sum to 500 and
\* differ by less than 300
W_C33 ==
  /\ bin.pc = "done"
  /\ comm_size = 2
  /\ BinLen = 3
  /\ bin.rank_load[0] = 300
  /\ bin.rank_load[1] = 200

(***************************************************************************)
(* Properties of the extractor (checked under SpecExt).                    *)
(***************************************************************************)
\* the k-mers of a read, in read order
KmersOfRead(read, K) ==
  [b \in 1 .. (Len(read) - K + 1) |-> PackBases(SubSeq(read, b, b + K - 1))]

RECURSIVE Flatten(_)
Flatten(ss) == IF ss = <<>> THEN <<>> ELSE ss[1] \o Flatten(Tail(ss))

\* the smallest packed value among the K-M+1 m-mers of a k-mer
MinimizerOfKmer(kmerBases, M) ==
  MinOf({ PackBases(SubSeq(kmerBases, p, p + M - 1)) :
            p \in 1 .. (Len(kmerBases) - M + 1) })

\* C3: for a read of length N >= K the k-mers expanded from the emitted
\* super-mers, concatenated in emission order, are exactly the N-K+1 k-mers
\* of the read in read order; a read shorter than K emits nothing.
T_C3 ==
  ext.pc = "done" =>
    /\ Flatten([k \in DOMAIN ext.out |-> ExpandSupermer(ext.out[k].bases, kmer_size)])
         = KmersOfRead(ext.read, kmer_size)
    /\ Len(ext.read) < kmer_size => ext.out = <<>>

W_C3 ==
  /\ ext.pc = "done"
  /\ kmer_size = 3
  /\ Len(ext.read) = 5
  /\ Len(ext.out) = 2
  /\ Len(ext.out[1].bases) = 4

\* C4: every k-mer of every emitted pair (m, bases) has a minimizer, the
\* minimum of its K-M+1 m-mers by unsigned value, equal to m.
T_C4 ==
  \A k \in DOMAIN ext.out :
    LET bases == ext.out[k].bases
    IN /\ Len(bases) >= kmer_size
       /\ \A b \in 1 .. (Len(bases) - kmer_size + 1) :
            MinimizerOfKmer(SubSeq(bases, b, b + kmer_size - 1), ext.mmer.mmer_size)
              = ext.out[k].minimizer

W_C4 ==
  /\ ext.pc = "done"
  /\ kmer_size = 4
  /\ ext.mmer.mmer_size = 2
  /\ Len(ext.out) = 2
  /\ ext.out[1].minimizer # ext.out[2].minimizer
  /\ ext.out[2].minimizer > 3

\* the rolling m-mer of the extractor once it has been initialised
ExtRolling == ext.pc \in {"roll", "done"} /\ Len(ext.read) >= kmer_size

\* the bases the rolling m-mer covers: the last M of the ext.j + K consumed
ExtWindow ==
  SubSeq(ext.read, ext.j + kmer_size - ext.mmer.mmer_size + 1, ext.j + kmer_size)

\* the windows of M2 bases of the read, M2 from 1 to 3, as (M2, start) pairs
OtherWindows ==
  { w \in (1 .. 3) \X (1 .. Len(ext.read)) : w[2] + w[1] - 1 <= Len(ext.read) }

\* the Minimizer object of length w[1] initialised at position w[2]
MinimizerAt(w) == MinimizerInit(setMmerSize(NewMinimizer, w[1]), ext.read, w[2])

BoolCount(S) == Cardinality({i \in DOMAIN S : S[i]})

\* C23: the comparison operators of Minimizer agree with the unsigned
\* comparison of the packed values: of a < b, a == b, a > b exactly one
\* holds, a != b is the negation of a == b, and neither mmer_size nor mask
\* takes part.
T_C23 ==
  ExtRolling =>
    \A w \in OtherWindows :
      LET a  == ext.mmer
          b  == MinimizerAt(w)
          va == PackBases(ExtWindow)
          vb == PackBases(SubSeq(ext.read, w[2], w[2] + w[1] - 1))
      IN /\ MinimizerLess(a, b) <=> va < vb
         /\ MinimizerGreater(a, b) <=> va > vb
         /\ MinimizerEq(a, b) <=> va = vb
         /\ MinimizerNeq(a, b) <=> ~ MinimizerEq(a, b)
         /\ MinimizerLess(b, a) <=> MinimizerGreater(a, b)
         /\ BoolCount(<<MinimizerLess(a, b), MinimizerEq(a, b), MinimizerGreater(a, b)>>) = 1

\* the 2-mer GT at the end of ACGT is above the 1-mer A, equal to the 2-mer
\* GT and below the 3-mer CGT
W_C23 ==
  /\ ext.pc = "done"
  /\ ext.read = <<0, 1, 2, 3>>
  /\ ext.mmer.mmer_size = 2
  /\ MinimizerGreater(ext.mmer, MinimizerAt(<<1, 1>>))
  /\ MinimizerEq(ext.mmer, MinimizerAt(<<2, 3>>))
  /\ MinimizerLess(ext.mmer, MinimizerAt(<<3, 2>>))
  /\ MinimizerNeq(ext.mmer, MinimizerAt(<<3, 2>>))

\* the m-mer that starts at the zero-based position p of the read
MmerAt(read, p, M) == PackBases(SubSeq(read, p + 1, p + M))

\* the zero-based starts of the m-mers of the k-mer that starts at j
MmerStarts(j, K, M) == j .. (j + K - M)

\* the smallest m-mer value of the k-mer that starts at j
WindowMin(read, j, K, M) == MinOf({ MmerAt(read, p, M) : p \in MmerStarts(j, K, M) })

\* the minimizer of the k-mer that starts at j: its value and the leftmost
\* (resp. rightmost) place where that value occurs in the k-mer
LeftmostMinimizer(read, j, K, M) ==
  [value |-> WindowMin(read, j, K, M),
   pos   |-> MinOf({ p \in MmerStarts(j, K, M) :
                       MmerAt(read, p, M) = WindowMin(read, j, K, M) })]

RightmostMinimizer(read, j, K, M) ==
  [value |-> WindowMin(read, j, K, M),
   pos   |-> MaxOf({ p \in MmerStarts(j, K, M) :
                       MmerAt(read, p, M) = WindowMin(read, j, K, M) })]

ExtM == ext.mmer.mmer_size

\* the zero-based starts of the k-mers of the read
KmerIndexes == Idx(Len(ext.read) - kmer_size + 1)

Scenario1 == <<0, 1, 2, 3, 0, 1, 2, 3>>

AtScenario(read) ==
  /\ ext.pc = "done"
  /\ ext.read = read
  /\ kmer_size = 5
  /\ ExtM = 3

\* the k-mers the emitted super-mers expand to, in emission order
ExpandedOut ==
  Flatten([k \in DOMAIN ext.out |-> ExpandSupermer(ext.out[k].bases, kmer_size)])

\* C25 as stated: for ACGTACGT at K=5, M=3 the minimizer of each of the four
\* k-mers is ACG, and the extractor emits one super-mer of all 8 bases with
\* minimizer ACG, whose expansion counts each of the 4 k-mers once.
CE_C25 ==
  AtScenario(Scenario1) =>
    /\ \A j \in KmerIndexes : WindowMin(ext.read, j, 5, 3) = PackBases(<<0, 1, 2>>)
    /\ ext.out = << [minimizer |-> PackBases(<<0, 1, 2>>), bases |-> Scenario1] >>
    /\ ExpandedOut = KmersOfRead(Scenario1, 5)

\* C25 amended: for ACGTACGT at K=5, M=3 the minimizers of ACGTA, CGTAC,
\* GTACG, TACGT are ACG, CGT, ACG, ACG (CGTAC does not contain ACG), and the
\* extractor emits three super-mers, ACGTA with minimizer ACG, CGTAC with
\* minimizer CGT and GTACGT with minimizer ACG, whose expansion gives each of
\* the 4 k-mers once.
T_C25 ==
  AtScenario(Scenario1) =>
    /\ [j \in 1 .. 4 |-> WindowMin(ext.read, j - 1, 5, 3)]
         = <<PackBases(<<0, 1, 2>>), PackBases(<<1, 2, 3>>),
             PackBases(<<0, 1, 2>>), PackBases(<<0, 1, 2>>)>>
    /\ ext.out = <<[minimizer |-> PackBases(<<0, 1, 2>>), bases |-> <<0, 1, 2, 3, 0>>],
                   [minimizer |-> PackBases(<<1, 2, 3>>), bases |-> <<1, 2, 3, 0, 1>>],
                   [minimizer |-> PackBases(<<0, 1, 2>>), bases |-> <<2, 3, 0, 1, 2, 3>>]>>
    /\ ExpandedOut = KmersOfRead(Scenario1, 5)
    /\ Len(ExpandedOut) = 4
    /\ Cardinality({ExpandedOut[i] : i \in DOMAIN ExpandedOut}) = 4

W_C25 ==
  /\ AtScenario(Scenario1)
  /\ Len(ext.out) = 3
  /\ ext.out[2].minimizer = 27

\* the extractor has the front of the deque for the k-mer that starts at ext.j
ExtAtKmer == ext.pc = "roll"

\* C26: after every window advance the front of the deque is the minimizer
\* of the current k-mer: the minimum of its K-M+1 m-mers by value and, when
\* that minimum occurs several times in the window, its leftmost occurrence.
CE_C26 ==
  ExtAtKmer =>
    /\ ext.deque[1] = LeftmostMinimizer(ext.read, ext.j, kmer_size, ExtM)
    /\ ext.cur = ext.deque[1]

\* what the rolling window achieves: the front is the minimum by value, at
\* its rightmost occurrence in the window
FrontIsRightmostMin ==
  ExtAtKmer =>
    /\ ext.deque[1] = RightmostMinimizer(ext.read, ext.j, kmer_size, ExtM)
    /\ ext.cur = ext.deque[1]

\* number of k-mers in the super-mers emitted before the k-th
KmersBefore(k) ==
  SumOver([i \in 1 .. (k - 1) |-> Len(ext.out[i].bases) - kmer_size + 1], 1 .. (k - 1))

\* the k-mers (zero-based starts) at which an emitted super-mer begins
EmittedStarts == { KmersBefore(k) : k \in DOMAIN ext.out }

Scenario4 == <<0, 1, 0, 1, 0, 1, 0, 1>>

\* C27: a super-mer boundary lies between two consecutive k-mers of a read
\* exactly when the minimizer value or the minimizer occurrence changes
\* between them, so every super-mer is a maximal run of k-mers with the same
\* minimizer identity; for ACACACAC at K=5, M=3 the boundaries fall where the
\* identity changes and the super-mers expand to 4 k-mers in total.
CE_C27 ==
  (ext.pc = "done" /\ Len(ext.read) >= kmer_size) =>
    /\ \A j \in KmerIndexes :
         j > 0 => ((j \in EmittedStarts) <=>
                     LeftmostMinimizer(ext.read, j, kmer_size, ExtM)
                       # LeftmostMinimizer(ext.read, j - 1, kmer_size, ExtM))
    /\ AtScenario(Scenario4) => Len(ExpandedOut) = 4

\* what the extractor achieves: the boundaries lie where the value or the
\* rightmost occurrence of the minimum changes, and ACACACAC expands to 4 k-mers
BoundariesAtRightmostChange ==
  (ext.pc = "done" /\ Len(ext.read) >= kmer_size) =>
    /\ 0 \in EmittedStarts
    /\ \A j \in KmerIndexes :
         j > 0 => ((j \in EmittedStarts) <=>
                     RightmostMinimizer(ext.read, j, kmer_size, ExtM)
                       # RightmostMinimizer(ext.read, j - 1, kmer_size, ExtM))
    /\ AtScenario(Scenario4) => Len(ExpandedOut) = 4

(***************************************************************************)
(* Properties of insert (checked under Spec).                              *)
(***************************************************************************)
AllDone == \A r \in Ranks : rk[r].pc = "done"

\* the k-mers a base sequence contains, as a set of start positions
KmerStarts(bases, K) == 1 .. (Len(bases) - K + 1)

\* the (tuple, start) positions at which the packed k-mer x occurs in the
\* super-mers of rank r's input
PositionsAt(r, x) ==
  { tb \in (DOMAIN rk[r].input) \X (1 .. Len(rk[r].read)) :
      /\ tb[2] \in KmerStarts(rk[r].input[tb[1]].bases, kmer_size)
      /\ PackBases(SubSeq(rk[r].input[tb[1]].bases, tb[2], tb[2] + kmer_size - 1)) = x }

OccurrencesAt(r, x) == Cardinality(PositionsAt(r, x))

\* number of occurrences of x in the global input
Occurrences(x) == SumOver([r \in Ranks |-> OccurrencesAt(r, x)], Ranks)

\* the count rank r holds for x, 0 when x is absent
CountAt(r, x) == IF x \in DOMAIN rk[r].c.map THEN rk[r].c.map[x] ELSE 0

AllKmers == Idx(Pow2(2 * kmer_size))

\* the minimizers under which the k-mer x occurs in the global input
MinimizersOf(x) ==
  UNION { { rk[r].input[tb[1]].minimizer : tb \in PositionsAt(r, x) } : r \in Ranks }

Holders(x) == {r \in Ranks : x \in DOMAIN rk[r].c.map}

\* C1: after insert has completed on every rank, for every k-mer the sum
\* over the ranks of its local count is its number of occurrences in the
\* global input, and a k-mer that does not occur is in no local table.
CE_C1 ==
  AllDone =>
    \A x \in AllKmers :
      /\ SumOver([r \in Ranks |-> CountAt(r, x)], Ranks) = Occurrences(x)
      /\ Occurrences(x) = 0 => Holders(x) = {}

\* the statement of C1 on communicators of more than one rank
CountsExactMultiRank == comm_size > 1 => CE_C1

\* C2: after insert has completed, a k-mer is in rank r's table only if the
\* minimizer->rank map sends the minimizer of its super-mer to r, and every
\* k-mer of the input is held by exactly one rank.
CE_C2 ==
  AllDone =>
    /\ \A r \in Ranks : \A x \in DOMAIN rk[r].c.map :
         \E m \in MinimizersOf(x) : rk[r].minimizer_rank[m] = r
    /\ \A x \in AllKmers : Occurrences(x) > 0 => Cardinality(Holders(x)) = 1

\* the statement of C2 on communicators of more than one rank
OwnerHoldsMultiRank == comm_size > 1 => CE_C2

\* the histogram has been all-reduced on rank r
Reduced(r) == Binned(r) \/ rk[r].pc = "binning"

\* number of k-mers in the reads of all ranks
TotalKmers ==
  SumOver([r \in Ranks |-> IF Len(rk[r].read) >= kmer_size
                           THEN Len(rk[r].read) - kmer_size + 1 ELSE 0], Ranks)

\* C5: after the all-reduce the histogram is the same array on every rank,
\* each cell is the sum over the ranks of the local cells, and the sum over
\* the array is the total number of k-mers in all ranks' input.
T_C5 ==
  \A r \in Ranks :
    Reduced(r) =>
      LET H == rk[r].minimizer_kmer_load_map
      IN /\ \A q \in Ranks : rk[q].minimizer_kmer_load_map = H
         /\ \A m \in DOMAIN H :
              H[m] = SumOver([q \in Ranks |-> rk[q].local_load[m]], Ranks)
         /\ SumOver(H, DOMAIN H) = TotalKmers

W_C5 ==
  /\ comm_size = 2
  /\ AllAt("binning")
  /\ rk[0].local_load[0] = 2
  /\ rk[1].local_load[0] = 1
  /\ rk[1].local_load[1] = 1
  /\ rk[0].minimizer_kmer_load_map[0] = 3
  /\ rk[0].minimizer_kmer_load_map[1] = 1

ThreeCollectives == <<"all_reduce", "sizes_all_to_all", "data_all_to_all">>

\* C12 as stated: on globally empty input every rank still executes the
\* histogram all-reduce and both all-to-alls, and returns with an empty table.
CE_C12 ==
  (AllDone /\ GlobalEmpty(rk)) =>
    \A r \in Ranks : /\ rk[r].collectives = ThreeCollectives
                     /\ rk[r].c.map = EmptyTable.map

\* C12 amended: on globally empty input every rank returns 0 right after the
\* emptiness test, having executed neither the histogram all-reduce nor an
\* all-to-all, and its local count table is left empty.
T_C12 ==
  GlobalEmpty(rk) =>
    \A r \in Ranks :
      /\ rk[r].pc \in {"start", "done"}
      /\ rk[r].collectives = <<>>
      /\ rk[r].c = EmptyTable
      /\ rk[r].count = 0

W_C12 ==
  /\ comm_size = 2
  /\ GlobalEmpty(rk)
  /\ AllDone
  /\ Len(rk[0].read) = 1
  /\ rk[1].read = <<>>

\* C13 as stated: every rank enters exactly the three collectives, in the
\* order all-reduce, sizes all-to-all, variable-length all-to-all.
CE_C13 ==
  AllDone => \A r \in Ranks : rk[r].collectives = ThreeCollectives

\* the exchanges one insert enters
CollectivesEntered ==
  IF GlobalEmpty(rk) THEN <<>>
  ELSE IF comm_size = 1 THEN <<"all_reduce">>
  ELSE ThreeCollectives

IsPrefix(s, t) == Len(s) <= Len(t) /\ s = SubSeq(t, 1, Len(s))

SameCollectives ==
  \A r \in Ranks :
    /\ \A q \in Ranks : rk[q].collectives = rk[r].collectives
    /\ IsPrefix(rk[r].collectives, CollectivesEntered)
    /\ rk[r].pc = "done" => rk[r].collectives = CollectivesEntered

\* C13 amended: all ranks enter the same collectives in the same order
\* whatever their local input is: the histogram all-reduce, the sizes
\* all-to-all and the variable-length all-to-all when the global input is not
\* empty and P > 1, the all-reduce alone when P = 1, none of them when the
\* global input is empty; and insert eventually returns on every rank.
T_C13 == [] SameCollectives /\ <> AllDone

W_C13 ==
  /\ comm_size = 2
  /\ AllDone
  /\ rk[0].input = <<>>
  /\ rk[1].input # <<>>
  /\ \A r \in Ranks : rk[r].collectives = ThreeCollectives

KmerHashes ==
  { [x \in AllKmers |-> x],
    [x \in AllKmers |-> x \div 4],
    [x \in AllKmers |-> (3 * x + (x \div 4)) % 7] }

\* KeyToRank::operator(): proc_trans_hash(x) % p
KeyToRank(h, x, p) == h[x] % p

\* SelectSeq with a predicate on the k-mer
RECURSIVE KeptFor(_, _, _, _)
KeptFor(kmers, h, p, r) ==
  IF kmers = <<>> THEN <<>>
  ELSE IF KeyToRank(h, kmers[1], p) = r
       THEN <<kmers[1]>> \o KeptFor(Tail(kmers), h, p, r)
       ELSE KeptFor(Tail(kmers), h, p, r)

RECURSIVE CountingFrom(_, _, _, _, _)
\* what rank r receives from the ranks src, src + 1, ...
CountingFrom(kmers, h, p, r, src) ==
  IF src >= p THEN <<>>
  ELSE KeptFor(kmers[src], h, p, r) \o CountingFrom(kmers, h, p, r, src + 1)

\* the k-mers rank r holds after imxx::distribute(input, key_to_rank, ...)
\* of counting_unordered_map::insert: its own on one rank, otherwise those
\* mapped to it, in the order of the source ranks
CountingReceived(kmers, h, p, r) ==
  IF p > 1
  THEN CountingFrom(kmers, h, p, r, 0)
  ELSE kmers[r]

\* counting_unordered_map::insert of the k-mers kmers[r] on rank r of p
\* ranks, each starting from an empty table: the table of every rank
CountingInsert(kmers, h, p) ==
  IF \A r \in Idx(p) : kmers[r] = <<>>
  THEN [r \in Idx(p) |-> EmptyTable]
  ELSE [r \in Idx(p) |-> local_insert(EmptyTable, CountingReceived(kmers, h, p, r))]

\* the union over the ranks of the (k-mer, count) entries of their tables
TableUnion(tables) ==
  UNION { { <<x, tables[r].map[x]>> : x \in DOMAIN tables[r].map } : r \in DOMAIN tables }

\* the k-mers of the super-mers of every rank, expanded one by one
ExpandedInput ==
  [r \in Ranks |->
     ExpandAll([j \in 1 .. Len(rk[r].input) |-> rk[r].input[j].bases], kmer_size)]

\* C40: for the same input k-mers, the union over the ranks of the tables
\* of the minimizer-based insert equals the union of the tables of
\* counting_unordered_map::insert of the expanded k-mers, whatever the
\* distribution hash
CE_C40 ==
  AllDone =>
    \A h \in KmerHashes :
      TableUnion([r \in Ranks |-> rk[r].c]) =
        TableUnion(CountingInsert(ExpandedInput, h, comm_size))

\* the statement of C40 on communicators of more than one rank
UnionsEqualMultiRank == comm_size > 1 => CE_C40

\* C29: with a single rank, insert of a non-empty list of super-mers expands
\* every super-mer locally, and the local table afterwards holds every k-mer
\* of the input with its number of occurrences.
CE_C29 ==
  (comm_size = 1 /\ AllDone /\ rk[0].input # <<>>) =>
    \A x \in AllKmers :
      /\ CountAt(0, x) = Occurrences(x)
      /\ x \in DOMAIN rk[0].c.map <=> Occurrences(x) > 0

\* what the code does on a single rank: nothing is expanded or inserted
SingleRankInsertsNothing ==
  (comm_size = 1 /\ AllDone) =>
    /\ rk[0].output = <<>>
    /\ rk[0].c.map = EmptyTable.map
    /\ rk[0].count = 0

\* number of times the k-mer x occurs in a read
OccurrencesIn(read, x) ==
  Cardinality({ b \in KmerStarts(read, kmer_size) :
                  PackBases(SubSeq(read, b, b + kmer_size - 1)) = x })

\* occurrences of x in the batches of all insert calls so far
OccurrencesOverBatches(x) ==
  SumOver([r \in Ranks |-> OccurrencesIn(rk[r].read, x)
                            + OccurrencesIn(rk[r].prev.read, x)], Ranks)

\* the second insert call has returned on every rank
SecondCallDone == \A r \in Ranks : rk[r].run = 2 /\ rk[r].pc = "done"

\* C30: after any sequence of insert calls on the same distributed map,
\* each with its own batch and histogram, every k-mer is in at most one
\* rank's local table, its count there is its total number of occurrences
\* over all batches, and the owner of a minimizer does not change between
\* calls.
CE_C30 ==
  SecondCallDone =>
    /\ \A x \in AllKmers :
         /\ Cardinality(Holders(x)) <= 1
         /\ \A r \in Holders(x) : CountAt(r, x) = OccurrencesOverBatches(x)
         /\ OccurrencesOverBatches(x) > 0 => Holders(x) # {}
    /\ \A r \in Ranks : rk[r].minimizer_rank = rk[r].prev.minimizer_rank

\* what the code achieves on more than one rank: the counts of a k-mer over
\* the ranks add up to its occurrences over all batches
CountsAddUpOverBatches ==
  (SecondCallDone /\ comm_size > 1) =>
    \A x \in AllKmers :
      SumOver([r \in Ranks |-> CountAt(r, x)], Ranks) = OccurrencesOverBatches(x)

\* the owner of minimizer A moved between the calls and AA is in two tables
SplitReached ==
  /\ SecondCallDone
  /\ comm_size = 2
  /\ ~ GlobalEmpty(rk)
  /\ rk[0].minimizer_rank[0] # rk[0].prev.minimizer_rank[0]
  /\ Holders(0) = {0, 1}

\* C32: when the input is empty on every rank, insert returns 0 on every
\* rank and leaves the local count table, the local_changed flag and the
\* caller's histogram argument as they were on entry.
T_C32 ==
  (GlobalEmpty(rk) /\ \A r \in Ranks : rk[r].run = 2) =>
    \A r \in Ranks :
      /\ rk[r].pc \in {"start", "done"}
      /\ rk[r].count = 0
      /\ rk[r].c = rk[r].prev.c
      /\ rk[r].local_changed = rk[r].prev.local_changed
      /\ rk[r].minimizer_kmer_load_map = rk[r].local_load

\* the second call, with no input on either rank, has returned: the tables
\* filled by the first call, the raised flags and the stale histograms, which
\* differ between the ranks, are as they were
W_C32 ==
  /\ comm_size = 2
  /\ GlobalEmpty(rk)
  /\ \A r \in Ranks : /\ rk[r].run = 2
                       /\ rk[r].pc = "done"
                       /\ rk[r].local_changed
                       /\ TableSize(rk[r].c) = 1
  /\ rk[0].minimizer_kmer_load_map[0] = 2
  /\ rk[1].minimizer_kmer_load_map[0] = 0
  /\ rk[1].minimizer_kmer_load_map[1] = 1

LoadBalanceModes == {"greedy-binning", "hash-mod"}

\* the owner of every minimizer in a load-balance mode
OwnerMap(mode, h, minimizer_rank) ==
  [m \in DOMAIN minimizer_rank |->
     IF mode = "hash-mod" THEN TupleToRank(h, [minimizer |-> m], comm_size)
     ELSE minimizer_rank[m]]

\* rank r has bucketed its input for the exchange
Bucketed(r) ==
  /\ comm_size > 1
  /\ rk[r].pc \in {"a2a_data", "local", "done"}
  /\ ~ GlobalEmpty(rk)

\* C28 as stated: the load-balance mode is selectable: in greedy-binning
\* mode the owner of a super-mer is the binner's minimizer->rank entry, in
\* hash-mod mode it is murmur(minimizer) mod P.
CE_C28 ==
  \A r \in Ranks :
    Bucketed(r) =>
      \A mode \in LoadBalanceModes, h \in MurmurFunctions, p \in Ranks :
        rk[r].send[p] =
          SerializeBucket(Bucket(rk[r].input, OwnerMap(mode, h, rk[r].minimizer_rank), p))

\* C28 amended: insert has no load-balance mode: the owner of a super-mer is
\* always the binner's minimizer->rank entry (TupleToRank2), whatever the
\* hash of its minimizer is.  The hash-mod functor TupleToRank gives
\* murmur(minimizer) mod P, a value in [0,P) that depends only on the
\* minimizer value and P, but insert does not hand it to the exchange.
T_C28 ==
  \A r \in Ranks :
    Bucketed(r) =>
      /\ \A p \in Ranks :
           rk[r].send[p] =
             SerializeBucket(Bucket(rk[r].input, rk[r].minimizer_rank, p))
      /\ \A h \in MurmurFunctions : \A k1, k2 \in DOMAIN rk[r].input :
           /\ TupleToRank(h, rk[r].input[k1], comm_size) \in Ranks
           /\ rk[r].input[k1].minimizer = rk[r].input[k2].minimizer =>
                TupleToRank(h, rk[r].input[k1], comm_size)
                  = TupleToRank(h, rk[r].input[k2], comm_size)

\* on two ranks the super-mer CC of rank 0, whose minimizer C carries the
\* whole load, is kept for rank 0 by the binner's map
W_C28 ==
  /\ comm_size = 2
  /\ \A r \in Ranks : Bucketed(r)
  /\ rk[0].read = <<1, 1>>
  /\ rk[1].read = <<>>
  /\ rk[0].minimizer_rank[1] = 0
  /\ rk[0].send[0] = Serialize(<<1, 1>>)
  /\ rk[0].send[1] = <<>>

(***************************************************************************)
(* Properties of the local insertion (checked under SpecLoc).              *)
(***************************************************************************)
\* the k-mer the current step of local_insert visits
LocKmer == loc.kmers[loc.it + 1]

LocCount(c, x) == IF x \in DOMAIN c.map THEN c.map[x] ELSE 0

\* an iteration of the unfiltered loop, or one whose k-mer passes the predicate
LocInsertingStep ==
  /\ loc.pc = "insert"
  /\ loc'.pc = "insert"
  /\ loc'.it = loc.it + 1
  /\ (loc.pred.is_true \/ PredHolds(loc.pred, LocKmer))

\* C14: the local insertion of one k-mer adds one with default zero: an
\* absent k-mer enters the table with count 1, a present one has its count
\* increased by exactly 1 and the table size is unchanged; in both cases
\* every other entry is unchanged.
T_C14 ==
  [][ LocInsertingStep =>
        LET x == LocKmer
        IN /\ x \notin DOMAIN loc.c.map =>
                /\ DOMAIN loc'.c.map = DOMAIN loc.c.map \cup {x}
                /\ loc'.c.map[x] = 1
           /\ x \in DOMAIN loc.c.map =>
                /\ DOMAIN loc'.c.map = DOMAIN loc.c.map
                /\ loc'.c.map[x] = loc.c.map[x] + 1
                /\ TableSize(loc'.c) = TableSize(loc.c)
           /\ \A y \in DOMAIN loc.c.map :
                y # x => loc'.c.map[y] = loc.c.map[y] ]_vars

\* both cases have happened: AA was present with count 2 and is now 3, and
\* AC, absent before, is now present with count 1
W_C14 ==
  /\ loc.pc = "insert"
  /\ loc.pred.is_true
  /\ LocCount(loc.c0, 0) = 2
  /\ LocCount(loc.c, 0) = 3
  /\ LocCount(loc.c0, 1) = 0
  /\ LocCount(loc.c, 1) = 1

\* the arrangements of a sequence
Arrangements(q) ==
  { [i \in 1 .. Len(q) |-> q[f[i]]] :
      f \in { g \in [1 .. Len(q) -> 1 .. Len(q)] :
                \A i, j \in 1 .. Len(q) : i # j => g[i] # g[j] } }

\* C15: the final local count table does not depend on the order in which
\* the super-mers were received: running the local expansion and insertion
\* on any permutation of the received super-mers yields the same set of
\* (k-mer, count) pairs.
T_C15 ==
  loc.pc = "done" =>
    \A q \in Arrangements(loc.output) :
      LocRun(LocEntry(q, loc.c0, loc.pred, kmer_size), kmer_size).c.map = loc.c.map

\* two different super-mers with a common k-mer, counted on top of an
\* earlier count
W_C15 ==
  /\ loc.pc = "done"
  /\ loc.pred.is_true
  /\ loc.output = <<(<<0, 0, 1>>), (<<0, 0>>)>>
  /\ LocCount(loc.c0, 0) = 2
  /\ LocCount(loc.c, 0) = 4
  /\ LocCount(loc.c, 1) = 1

\* the K base codes of a packed k-mer, first base first
UnpackKmer(x, K) == [j \in 1 .. K |-> (x \div Pow2(2 * (K - j))) % 4]

\* an iteration of the expansion loop
LocExpandStep ==
  /\ loc.pc = "expand"
  /\ loc'.pc = "expand"
  /\ loc'.s = loc.s + 1

\* C16: expanding a received super-mer of B >= K bases appends exactly
\* B-K+1 k-mers, the i-th made of bases i .. i+K-1, so that the first bases
\* of the k-mers followed by the tail of the last k-mer give back the
\* super-mer; a super-mer of B < K bases appends nothing and changes nothing.
T_C16 ==
  [][ LocExpandStep =>
        LET bases == loc.output[loc.s + 1]
            B     == Len(bases)
            K     == kmer_size
            old   == Len(loc.kmers)
            new   == SubSeq(loc'.kmers, old + 1, Len(loc'.kmers))
        IN /\ SubSeq(loc'.kmers, 1, old) = loc.kmers
           /\ loc'.c = loc.c
           /\ B >= K =>
                /\ Len(new) = B - K + 1
                /\ \A i \in 1 .. Len(new) :
                     UnpackKmer(new[i], K) = SubSeq(bases, i, i + K - 1)
                /\ [i \in 1 .. Len(new) |-> UnpackKmer(new[i], K)[1]]
                     \o Tail(UnpackKmer(new[Len(new)], K)) = bases
           /\ B < K => loc'.kmers = loc.kmers ]_vars

\* a super-mer shorter than a k-mer, then one of two k-mers, were expanded
W_C16 ==
  /\ loc.pc = "expand"
  /\ loc.s = 2
  /\ loc.output = <<(<<0>>), (<<0, 1, 1>>)>>
  /\ loc.kmers = <<1, 5>>

\* C19: under a predicate the k-mers that fail it contribute nothing, they
\* are neither inserted nor added to an existing count, and every k-mer that
\* satisfies it is counted exactly as the unfiltered insert counts it.
T_C19 ==
  (loc.pc = "done" /\ ~ loc.pred.is_true) =>
    LET unfiltered ==
          LocRun(LocEntry(loc.output, loc.c0, TruePredicate, kmer_size), kmer_size).c
    IN \A x \in Idx(Pow2(2 * kmer_size)) :
         /\ ~ PredHolds(loc.pred, x) =>
              /\ LocCount(loc.c, x) = LocCount(loc.c0, x)
              /\ x \in DOMAIN loc.c.map <=> x \in DOMAIN loc.c0.map
         /\ PredHolds(loc.pred, x) =>
              /\ LocCount(loc.c, x) = LocCount(unfiltered, x)
              /\ x \in DOMAIN loc.c.map <=> x \in DOMAIN unfiltered.map

\* AC passed the predicate and was counted, CC failed it and is absent
W_C19 ==
  /\ loc.pc = "done"
  /\ ~ loc.pred.is_true
  /\ loc.pred.accepts = {0, 1}
  /\ loc.kmers = <<1, 5>>
  /\ LocCount(loc.c, 1) = 1
  /\ 5 \notin DOMAIN loc.c.map
  /\ loc.count = 1

\* C31: insert returns the number of distinct k-mer keys the call added to
\* the rank's local table, the table size after minus the table size before,
\* not the number of k-mer occurrences inserted; a call that only increments
\* existing counts returns 0.
T_C31 ==
  loc.pc = "done" =>
    /\ loc.count = TableSize(loc.c) - TableSize(loc.c0)
    /\ loc.count = Cardinality(DOMAIN loc.c.map \ DOMAIN loc.c0.map)
    /\ DOMAIN loc.c.map = DOMAIN loc.c0.map => loc.count = 0

\* AA was present with count 2; the call added two more occurrences of AA
\* and returned 0
W_C31 ==
  /\ loc.pc = "done"
  /\ loc.pred.is_true
  /\ loc.output = <<(<<0, 0, 0>>)>>
  /\ Len(loc.kmers) = 2
  /\ LocCount(loc.c0, 0) = 2
  /\ LocCount(loc.c, 0) = 4
  /\ loc.count = 0

(***************************************************************************)
(* Properties of the wire format (checked under SpecWire).                 *)
(***************************************************************************)
\* number of payload bytes of a super-mer of B bases: ceil(2B / 8)
PackedBytes(B) == (2 * B + 7) \div 8

RECURSIVE WireLength(_)
WireLength(supermers) ==
  IF supermers = <<>> THEN 0
  ELSE 1 + PackedBytes(Len(supermers[1])) + WireLength(Tail(supermers))

\* C17: a super-mer laid out as its base count followed by ceil(2B/8) bytes
\* of 2 bits per base, first base in the top bits, is rebuilt by the
\* receiver as the same base sequence of the same length, and the super-mers
\* of one bucket are rebuilt in order with their boundaries in place.
T_C17 ==
  /\ net.pc \in {"sent", "received"} =>
       /\ Len(net.bytes) = WireLength(net.bucket)
       /\ \A k \in DOMAIN net.bytes : net.bytes[k] \in 0 .. 255
       /\ net.bytes[1] = Len(net.bucket[1])
       /\ Len(net.bucket[1]) >= 4 =>
            net.bytes[2] = 64 * net.bucket[1][1] + 16 * net.bucket[1][2]
                             + 4 * net.bucket[1][3] + net.bucket[1][4]
  /\ net.pc = "received" => net.out = net.bucket

\* a super-mer of five bases between two others came through
W_C17 ==
  /\ net.pc = "received"
  /\ Len(net.out) = 3
  /\ net.out[2] = <<3, 0, 2, 1, 3>>
  /\ net.out[3] = <<1>>
  /\ Len(net.bytes) = 8

(***************************************************************************)
(* Properties of local_reserve (checked under SpecRes).                    *)
(***************************************************************************)
\* C18: once the receiver has reserved for the n k-mers of a batch, the
\* bucket count is at least ceil(n / max_load_factor), no entry of the table
\* was removed or changed, and the bucket count was not lowered.
CE_C18 ==
  rsv.pc = "returned" =>
    /\ rsv.c.buckets * max_load_factor >= rsv.n
    /\ rsv.c.map = rsv.c_before.map
    /\ rsv.c.buckets >= rsv.c_before.buckets

\* what the code achieves: the statement of C18 for batches of up to 2^24
\* k-mers, and for larger ones with n rounded to a float
ReserveUpToFloat ==
  rsv.pc = "returned" =>
    /\ rsv.c.buckets * max_load_factor >= ToFloat(rsv.n)
    /\ rsv.n <= FloatExact => rsv.c.buckets * max_load_factor >= rsv.n
    /\ rsv.c.map = rsv.c_before.map
    /\ rsv.c.buckets >= rsv.c_before.buckets

(***************************************************************************)
(* Properties of the Minimizer object (checked under SpecMin).             *)
(***************************************************************************)
\* the word whose M lowest fields are the last M of the bases consumed
PackedLast(w, pattern, consumed, M) ==
  [i \in 1 .. (w \div 2) |->
     IF i > (w \div 2) - M THEN BaseAt(pattern, consumed - ((w \div 2) - i)) ELSE 0]

\* C22: after setMmerSize(M), init over M bases and any number of next
\* calls, getValue() is below 4^M and is the 2-bit packing, first base most
\* significant, of the last M bases consumed; it equals init over the window
\* moved to those bases.
CE_C22 ==
  mz.pc = "rolling" =>
    /\ mz.mm.val = PackedLast(mz.bits, mz.pattern, mz.consumed, mz.size)
    /\ MinimizerInitWide(mz.mm, mz.pattern, mz.consumed - mz.size + 1).val = mz.mm.val

\* what the code achieves: the statement of C22 for 2M below the width of int
RollingExactBelowInt == 2 * mz.size < IntBits - 1 => CE_C22

\* C24: for every M >= 1 with 2M not above the width of the m-mer word,
\* setMmerSize(M) sets mask to exactly 2^(2M) - 1 in that word type, M = 16
\* on a 32-bit or 64-bit word and larger M on a 64-bit word included.
CE_C24 ==
  mz.pc # "new" =>
    /\ mz.mm.mmer_size = mz.size
    /\ mz.mm.mask = LowFields(mz.bits, mz.size)

\* what the code achieves: the statement of C24 for 2M below the width of int
MaskExactBelowInt == 2 * mz.size < IntBits - 1 => CE_C24

====
